---- MODULE Spec2Model ----
(***************************************************************************)
(* Content acquisition and caching pipeline of the manga bot:             *)
(*   - the chapters table (Artifact Cache) of database.py,                *)
(*   - the chapter request handler send_chapter_or_telegraph with the     *)
(*     document pipeline (download_chapter, upload_chapter_to_channel,    *)
(*     download_and_cache_chapter) and the Telegraph path,                *)
(*   - the users table and the quota functions check_rate_limit and       *)
(*     increment_request_count, driven by the search handler,             *)
(*   - the search_cache and manga tables behind get_mangas.               *)
(* Time is counted in hours; a calendar day is 24 hours.                  *)
(***************************************************************************)
EXTENDS Integers, Sequences, FiniteSets, TLC

(* ------------------------------ bounds -------------------------------- *)
MaxProgressPages == 5
MaxPages == 2
MaxReqs == 2
MaxSearches == 3
MaxDay == 1
MaxCalls == 1
MaxTicks == 2
MaxCacheOps == 2

Tasks == {1, 2}
Mangas == {1, 2}
ChapterNums == {1}
Users == {1}

(* ------------------------- program constants -------------------------- *)
NULL == 0
HoursPerDay == 24
MaxPdfBytes == 50 * 1024 * 1024
SizeChoices == {MaxPdfBytes - 1, MaxPdfBytes, MaxPdfBytes + 1}
LegacyRefs == {900}

VARIABLES
    chapters,   \* chapters table: (manga_id, chapter_number) -> row
    users,      \* users table: user_id -> row
    now,        \* wall clock, in hours
    ctask,      \* chapter requests: the position and locals of each handler run
    nextRef,    \* next handle / URL the external stores will hand out
    started,    \* number of requests started so far
    lastDone,   \* the chapter request that completed last
    stask,      \* search requests: the position and locals of each handler run
    search_cache, \* search_cache table: query_hash -> row
    manga,      \* manga table: id -> row
    searches,   \* number of search requests started so far
    checksToday, \* per user: quota checks completed on the current calendar day
    api,        \* the Origin Client: the safe_api_call in progress and ban_alerts.log
    cachecall,  \* the last call of get_search_cache / save_search_cache and its outcome
    info,       \* the last call of get_manga_info and its outcome
    art         \* the chapters table row by row, and the last put made on it

\* what the search handlers leave alone
chapterVars == <<chapters, ctask, nextRef, started, lastDone, api, cachecall, info, art>>

\* what the chapter handlers leave alone
searchVars == <<users, now, stask, search_cache, manga, searches, checksToday, api,
               cachecall, info, art>>

vars == <<chapters, users, now, ctask, nextRef, started, lastDone,
          stask, search_cache, manga, searches, checksToday, api, cachecall, info, art>>

(* ----------------------------- chapters ------------------------------- *)
ChapterKeys == Mangas \X ChapterNums

NoChapter == [exists |-> FALSE, file_id |-> NULL, telegraph_url |-> NULL]

\* SELECT file_id FROM chapters WHERE manga_id = ? AND chapter_number = ?
get_chapter_file_id(db, m, c) ==
    IF <<m, c>> \in DOMAIN db /\ db[<<m, c>>].exists /\ db[<<m, c>>].file_id # NULL
    THEN db[<<m, c>>].file_id
    ELSE NULL

\* SELECT telegraph_url FROM chapters WHERE manga_id = ? AND chapter_number = ?
get_chapter_telegraph_url(db, m, c) ==
    IF <<m, c>> \in DOMAIN db /\ db[<<m, c>>].exists /\ db[<<m, c>>].telegraph_url # NULL
    THEN db[<<m, c>>].telegraph_url
    ELSE NULL

\* variant: the UPDATE that fills an empty file_id only
update_chapter_file_id_if_null(db, m, c, fid) ==
    IF <<m, c>> \in DOMAIN db /\ db[<<m, c>>].exists /\ db[<<m, c>>].file_id = NULL
    THEN [db EXCEPT ![<<m, c>>].file_id = fid]
    ELSE db

\* UPDATE chapters SET file_id = ? WHERE manga_id = ? AND chapter_number = ?
update_chapter_file_id(db, m, c, fid) ==
    IF <<m, c>> \in DOMAIN db /\ db[<<m, c>>].exists
    THEN [db EXCEPT ![<<m, c>>].file_id = fid]
    ELSE db

\* UPDATE chapters SET telegraph_url = ? WHERE manga_id = ? AND chapter_number = ?
update_chapter_telegraph_url(db, m, c, url) ==
    IF <<m, c>> \in DOMAIN db /\ db[<<m, c>>].exists
    THEN [db EXCEPT ![<<m, c>>].telegraph_url = url]
    ELSE db

\* INSERT OR REPLACE INTO chapters (..., file_id, telegraph_url, ...)
save_chapter_to_db(db, m, c, fid, url) ==
    [db EXCEPT ![<<m, c>>] = [exists |-> TRUE, file_id |-> fid, telegraph_url |-> url]]

(* ------------------------------- users -------------------------------- *)
NoUser == [exists |-> FALSE, daily_requests |-> 0, monthly_requests |-> 0,
           last_request_date |-> 0]

DayOf(t) == t \div HoursPerDay

today == DayOf(now)

\* check_rate_limit: the limits of a tier
daily_limit(is_premium) == IF is_premium THEN 100 ELSE 10

monthly_limit(is_premium) == IF is_premium THEN 3000 ELSE 300

\* variant: the limits compared with > where check_rate_limit has >=
limit_verdict_gt(user, is_premium) ==
    IF user.daily_requests > daily_limit(is_premium) THEN "daily"
    ELSE IF user.monthly_requests > monthly_limit(is_premium) THEN "monthly"
    ELSE "ok"

\* check_rate_limit, "Check limits": the verdict on the user record it holds
limit_verdict(user, is_premium) ==
    IF user.daily_requests >= daily_limit(is_premium) THEN "daily"
    ELSE IF user.monthly_requests >= monthly_limit(is_premium) THEN "monthly"
    ELSE "ok"

(* ------------------------ chapters table rows ------------------------- *)
MaxPuts == 3

\* the references a put can carry
ArtRefs == {1, 2}

Formats == {"file_id", "telegraph_url"}

NoPut == [key |-> <<0, 0>>, format |-> "none", ref |-> NULL, had |-> FALSE]

\* search_cache at row level: no put made yet
NoSearchPut == [fp |-> <<>>, ids |-> <<>>, at |-> 0, had |-> FALSE, hits |-> 0]

EmptyArt == [rows |-> {}, nextid |-> 1, last |-> NoPut, n |-> 0,
             search_rows |-> {}, search_nextid |-> 1, search_last |-> NoSearchPut]

\* the rows of (manga_id, chapter_number) = key
RowsOf(rows, key) == {r \in rows : <<r.manga_id, r.chapter_number>> = key}

\* the references the table holds for key in the column of the format
RefsOf(rows, key, format) == {r[format] : r \in {x \in RowsOf(rows, key) : x[format] # NULL}}

\* variant: a plain INSERT into a table without the UNIQUE constraint
insert_row(rows, row) == rows \cup {row}

\* INSERT OR REPLACE under UNIQUE(manga_id, chapter_number): the rows in conflict
\* are deleted before the new row goes in
insert_or_replace(rows, row) ==
    (rows \ RowsOf(rows, <<row.manga_id, row.chapter_number>>)) \cup {row}

\* UPDATE chapters SET <column> = ? WHERE manga_id = ? AND chapter_number = ?
update_rows(rows, key, format, ref) ==
    {IF <<r.manga_id, r.chapter_number>> = key THEN [r EXCEPT ![format] = ref] ELSE r :
        r \in rows}

\* the put that is recorded as the last one
PutOf(key, format, ref) ==
    [key |-> key, format |-> format, ref |-> ref,
     had |-> RefsOf(art.rows, key, format) # {}]

\* save_chapter_to_db: the migration's put of one reference
ArtSave ==
    /\ art.n < MaxPuts
    /\ \E key \in ChapterKeys, format \in Formats, ref \in ArtRefs :
          LET row == [id |-> art.nextid, manga_id |-> key[1], chapter_number |-> key[2],
                      file_id |-> IF format = "file_id" THEN ref ELSE NULL,
                      telegraph_url |-> IF format = "telegraph_url" THEN ref ELSE NULL]
          IN  art' = [art EXCEPT !.rows = insert_or_replace(art.rows, row),
                                 !.nextid = art.nextid + 1,
                                 !.last = PutOf(key, format, ref), !.n = art.n + 1]
    /\ UNCHANGED <<chapters, users, now, ctask, nextRef, started, lastDone, stask,
                   search_cache, manga, searches, checksToday, api, cachecall, info>>

\* update_chapter_file_id and update_chapter_telegraph_url: the bot's put
ArtUpdate ==
    /\ art.n < MaxPuts
    /\ \E key \in ChapterKeys, format \in Formats, ref \in ArtRefs :
          art' = [art EXCEPT !.rows = update_rows(art.rows, key, format, ref),
                             !.last = PutOf(key, format, ref), !.n = @ + 1]
    /\ UNCHANGED <<chapters, users, now, ctask, nextRef, started, lastDone, stask,
                   search_cache, manga, searches, checksToday, api, cachecall, info>>

(* ------------------------- chapter requests --------------------------- *)
NoRequest == [manga |-> 0, ch |-> 0, path |-> "none", cached |-> NULL, file_id |-> NULL,
              url |-> NULL]

IdleChapterTask ==
    [pc |-> "idle", user |-> 0, manga |-> 0, ch |-> 0, path |-> "pdf", vip |-> FALSE,
     origin |-> "none", cached |-> NULL, stale |-> FALSE, npages |-> 0, i |-> 0,
     images |-> <<>>, bad |-> {}, doc |-> <<>>, size |-> 0, file_id |-> NULL, url |-> NULL,
     delivery |-> "none", result |-> "none", msg |-> "none", sent |-> "none",
     sentRef |-> NULL, fetches |-> 0, pageGets |-> 0, uploads |-> 0, publishes |-> 0,
     prev |-> NoRequest, progress |-> {}]

\* what a request that reported success leaves behind for the request that follows it:
\* its key, its format, what it had found in the cache and the reference it obtained
\* (NULL: delivered without one)
Summary(r) ==
    IF r.result = "success"
    THEN [manga |-> r.manga, ch |-> r.ch, path |-> r.path, cached |-> r.cached,
          file_id |-> r.file_id, url |-> r.url]
    ELSE NoRequest

\* the handler returns: r is the final record of task t
Return(t, r) ==
    /\ ctask' = [ctask EXCEPT ![t] = [r EXCEPT !.pc = "done"]]
    /\ lastDone' = Summary(r)

Goto(t, r) ==
    /\ ctask' = [ctask EXCEPT ![t] = r]
    /\ UNCHANGED lastDone

\* send_chapter_or_telegraph, lines 105-131: settings, session data, format
ChBegin(t) ==
    /\ ctask[t].pc \in {"idle", "done"}
    /\ started < MaxReqs
    /\ started' = started + 1
    /\ \E u \in Users, m \in Mangas, c \in ChapterNums, vip \in BOOLEAN,
          fmt \in {"pdf", "telegraph"}, sess \in {"ok", "no_session", "no_chapter"} :
          LET r == [IdleChapterTask EXCEPT !.user = u, !.manga = m, !.ch = c, !.vip = vip,
                       !.path = IF fmt = "telegraph" /\ vip THEN "telegraph" ELSE "pdf",
                       !.prev = lastDone]
          IN  IF sess # "ok"
              THEN Return(t, [r EXCEPT !.result = "failed", !.msg = sess])
              ELSE Goto(t, [r EXCEPT !.pc = IF r.path = "telegraph" THEN "tgcache" ELSE "cache"])
    /\ UNCHANGED <<chapters, searchVars, nextRef>>

\* send_chapter_or_telegraph, line 170: get_chapter_from_channel
ChCheckCache(t) ==
    /\ ctask[t].pc = "cache"
    /\ LET r == ctask[t]
           fid == get_chapter_file_id(chapters, r.manga, r.ch)
       IN  Goto(t, [r EXCEPT !.cached = fid,
                             !.pc = IF fid # NULL THEN "sendcached" ELSE "fetch"])
    /\ UNCHANGED <<chapters, searchVars, nextRef, started>>

\* variant: a delivery from the cache that is counted as a use of the quota
ChSendCachedCounted(t) ==
    /\ ctask[t].pc = "sendcached"
    /\ LET r == ctask[t] IN
       \E outcome \in {"ok", "rejected", "error"} :
          CASE outcome = "ok" ->
                 /\ Return(t, [r EXCEPT !.result = "cache_hit", !.sent = "ref",
                                        !.sentRef = r.cached])
                 /\ users' = [users EXCEPT ![r.user].daily_requests = @ + 1,
                                           ![r.user].monthly_requests = @ + 1]
            [] outcome = "rejected" ->
                 /\ Goto(t, [r EXCEPT !.stale = TRUE, !.pc = "fetch"])
                 /\ UNCHANGED users
            [] OTHER ->
                 /\ Return(t, [r EXCEPT !.result = "raised"])
                 /\ UNCHANGED users
    /\ UNCHANGED <<chapters, now, stask, search_cache, manga, searches, checksToday,
                   nextRef, started, api, cachecall, info, art>>

\* send_chapter_or_telegraph, lines 172-186: deliver the cached file_id
ChSendCached(t) ==
    /\ ctask[t].pc = "sendcached"
    /\ LET r == ctask[t] IN
       \E outcome \in {"ok", "rejected", "error"} :
          CASE outcome = "ok" ->
                 Return(t, [r EXCEPT !.result = "cache_hit", !.sent = "ref", !.sentRef = r.cached])
            [] outcome = "rejected" ->
                 \* TelegramBadRequest / TelegramForbiddenError: fall through to the pipeline
                 Goto(t, [r EXCEPT !.stale = TRUE, !.pc = "fetch"])
            [] OTHER ->
                 \* any other exception leaves the handler
                 Return(t, [r EXCEPT !.result = "raised", !.delivery = "refused"])
    /\ UNCHANGED <<chapters, searchVars, nextRef, started>>

\* download_and_cache_chapter returns False: download_chapter gave no document
PipelineFailed(t, r, why) ==
    Return(t, [r EXCEPT !.result = "failed", !.msg = why])

\* download_chapter, line 455: the progress message is edited every fifth page
ProgressEvery == 5

\* download_chapter, line 455: the positions after which the progress message is edited
notifies(i, total_pages) == i % ProgressEvery = 0 \/ i = total_pages

\* download_chapter, lines 416-442: the page list through the Origin Client, which
\* lists at most `most` pages
fetch_page_list(t, most) ==
    /\ ctask[t].pc = "fetch"
    /\ LET r == [ctask[t] EXCEPT !.fetches = @ + 1] IN
       \E outcome \in {"no_response", "no_pages", "error", "pages"} :
          CASE outcome = "no_response" -> PipelineFailed(t, r, "no_data")
            [] outcome = "no_pages" -> PipelineFailed(t, r, "no_pages")
            [] outcome = "error" ->
                 \* an exception before the progress message exists: nothing is sent
                 PipelineFailed(t, r, "none")
            [] OTHER ->
                 \E n \in 0..most :
                    Goto(t, [r EXCEPT !.npages = n, !.i = 1, !.images = <<>>, !.pc = "pages"])
    /\ UNCHANGED <<chapters, searchVars, nextRef, started>>

PlFetchPageList(t) == fetch_page_list(t, MaxPages)

\* variant: the page loop left at the first page that fails
PlDownloadPageBreak(t) ==
    /\ ctask[t].pc = "pages"
    /\ ctask[t].i <= ctask[t].npages
    /\ LET r == [ctask[t] EXCEPT !.pageGets = @ + 1, !.i = @ + 1] IN
       \E ok \in BOOLEAN :
          IF ok
          THEN Goto(t, [r EXCEPT !.images = Append(@, ctask[t].i),
                                 !.progress = IF notifies(ctask[t].i, r.npages)
                                              THEN @ \cup {ctask[t].i} ELSE @])
          ELSE Goto(t, [r EXCEPT !.bad = @ \cup {ctask[t].i}, !.i = r.npages + 1])
    /\ UNCHANGED <<chapters, searchVars, nextRef, started>>

\* download_chapter, lines 445-462: one turn of the page loop
PlDownloadPage(t) ==
    /\ ctask[t].pc = "pages"
    /\ ctask[t].i <= ctask[t].npages
    /\ LET r == [ctask[t] EXCEPT !.pageGets = @ + 1, !.i = @ + 1] IN
       \E ok \in BOOLEAN :
          IF ok
          THEN Goto(t, [r EXCEPT !.images = Append(@, ctask[t].i),
                                 !.progress = IF notifies(ctask[t].i, r.npages)
                                              THEN @ \cup {ctask[t].i} ELSE @])
          ELSE Goto(t, [r EXCEPT !.bad = @ \cup {ctask[t].i}])
    /\ UNCHANGED <<chapters, searchVars, nextRef, started>>

\* variant: the size check with >= where download_chapter has >
PlAssembleGeq(t) ==
    /\ ctask[t].pc = "pages"
    /\ ctask[t].i > ctask[t].npages
    /\ LET r == ctask[t] IN
       IF r.images = <<>>
       THEN PipelineFailed(t, r, "empty")
       ELSE \E outcome \in {"converted", "error"} :
               IF outcome = "error"
               THEN PipelineFailed(t, r, "unexpected")
               ELSE \E sz \in SizeChoices :
                       IF sz >= MaxPdfBytes
                       THEN PipelineFailed(t, [r EXCEPT !.doc = r.images, !.size = sz], "too_large")
                       ELSE Goto(t, [r EXCEPT !.doc = r.images, !.size = sz, !.pc = "upload"])
    /\ UNCHANGED <<chapters, searchVars, nextRef, started>>

\* download_chapter, lines 464-489: empty check, img2pdf.convert, size check
PlAssemble(t) ==
    /\ ctask[t].pc = "pages"
    /\ ctask[t].i > ctask[t].npages
    /\ LET r == ctask[t] IN
       IF r.images = <<>>
       THEN PipelineFailed(t, r, "empty")
       ELSE \E outcome \in {"converted", "error"} :
               IF outcome = "error"
               THEN PipelineFailed(t, r, "unexpected")
               ELSE \E sz \in SizeChoices :
                       IF sz > MaxPdfBytes
                       THEN PipelineFailed(t, [r EXCEPT !.doc = r.images, !.size = sz], "too_large")
                       ELSE Goto(t, [r EXCEPT !.doc = r.images, !.size = sz, !.pc = "upload"])
    /\ UNCHANGED <<chapters, searchVars, nextRef, started>>

\* variant: a failed upload that still goes on to write the record
PlUploadKeep(t) ==
    /\ ctask[t].pc = "upload"
    /\ LET r == [ctask[t] EXCEPT !.uploads = @ + 1] IN
       \E ok \in BOOLEAN :
          IF ok
          THEN /\ Goto(t, [r EXCEPT !.file_id = nextRef, !.pc = "record"])
               /\ nextRef' = nextRef + 1
          ELSE /\ Goto(t, [r EXCEPT !.file_id = NULL, !.pc = "record"])
               /\ UNCHANGED nextRef
    /\ UNCHANGED <<chapters, searchVars, started>>

\* variant: a failed upload that ends the request without a delivery
PlUploadAbort(t) ==
    /\ ctask[t].pc = "upload"
    /\ LET r == [ctask[t] EXCEPT !.uploads = @ + 1] IN
       \E ok \in BOOLEAN :
          IF ok
          THEN /\ Goto(t, [r EXCEPT !.file_id = nextRef, !.pc = "record"])
               /\ nextRef' = nextRef + 1
          ELSE /\ PipelineFailed(t, [r EXCEPT !.file_id = NULL], "none")
               /\ UNCHANGED nextRef
    /\ UNCHANGED <<chapters, searchVars, started>>

\* upload_chapter_to_channel, lines 24-36: send the document to the storage channel
PlUpload(t) ==
    /\ ctask[t].pc = "upload"
    /\ LET r == [ctask[t] EXCEPT !.uploads = @ + 1] IN
       \E ok \in BOOLEAN :
          IF ok
          THEN /\ Goto(t, [r EXCEPT !.file_id = nextRef, !.pc = "record"])
               /\ nextRef' = nextRef + 1
          ELSE /\ Goto(t, [r EXCEPT !.file_id = NULL, !.pc = "deliver"])
               /\ UNCHANGED nextRef
    /\ UNCHANGED <<chapters, searchVars, started>>

\* upload_chapter_to_channel, lines 38-46: update_chapter_file_id, or the except branch
PlRecord(t) ==
    /\ ctask[t].pc = "record"
    /\ LET r == ctask[t] IN
       \E ok \in BOOLEAN :
          IF ok
          THEN /\ chapters' = update_chapter_file_id(chapters, r.manga, r.ch, r.file_id)
               /\ Goto(t, [r EXCEPT !.pc = "deliver"])
          ELSE /\ UNCHANGED chapters
               /\ Goto(t, [r EXCEPT !.file_id = NULL, !.pc = "deliver"])
    /\ UNCHANGED <<searchVars, nextRef, started>>

\* download_and_cache_chapter, lines 141-162: send to the user, by file_id or directly
PlDeliver(t) ==
    /\ ctask[t].pc = "deliver"
    /\ LET r == ctask[t] IN
       \E ok \in BOOLEAN :
          IF ok
          THEN Return(t, [r EXCEPT !.result = "success", !.delivery = "accepted",
                                   !.sent = IF r.file_id # NULL THEN "ref" ELSE "direct",
                                   !.sentRef = r.file_id])
          ELSE \* the except branch of download_and_cache_chapter: print, return False
               Return(t, [r EXCEPT !.result = "failed", !.delivery = "refused", !.msg = "none"])
    /\ UNCHANGED <<chapters, searchVars, nextRef, started>>

(* --------------------------- Telegraph path --------------------------- *)
Origins == {"dl", "doc_nav", "batch_dl"}

\* upload_to_telegraph, line 350: callback.data.split('_')[1] read as the manga id.
\* "dl_<ch>" gives the chapter label, "doc_nav_<ch>" gives "nav", "batch_dl_<i>" gives "dl";
\* NULL stands for a text int() rejects.
callback_manga_id(origin, ch) == IF origin = "dl" THEN ch ELSE NULL

\* send_chapter_or_telegraph, lines 133-134: get_chapter_telegraph_url
TgCheckCache(t) ==
    /\ ctask[t].pc = "tgcache"
    /\ LET r == ctask[t]
           url == get_chapter_telegraph_url(chapters, r.manga, r.ch)
       IN  Goto(t, [r EXCEPT !.cached = url,
                             !.pc = IF url # NULL THEN "tgsendcached" ELSE "tgfetch"])
    /\ UNCHANGED <<chapters, searchVars, nextRef, started>>

\* send_chapter_or_telegraph, lines 135-143: send the cached link
TgSendCached(t) ==
    /\ ctask[t].pc = "tgsendcached"
    /\ LET r == ctask[t] IN
       \E ok \in BOOLEAN :
          IF ok
          THEN Return(t, [r EXCEPT !.result = "cache_hit", !.sent = "ref", !.sentRef = r.cached])
          ELSE Return(t, [r EXCEPT !.result = "raised", !.delivery = "refused"])
    /\ UNCHANGED <<chapters, searchVars, nextRef, started>>

\* send_chapter_or_telegraph, lines 146-153 and 166: the page list for the Telegraph page
TgFetchPageList(t) ==
    /\ ctask[t].pc = "tgfetch"
    /\ LET r == [ctask[t] EXCEPT !.fetches = @ + 1] IN
       \E outcome \in {"no_response", "error", "pages"} :
          CASE outcome = "no_response" ->
                 Return(t, [r EXCEPT !.result = "failed", !.msg = "tg_failed"])
            [] outcome = "error" ->
                 Return(t, [r EXCEPT !.result = "raised"])
            [] OTHER ->
                 \E n \in 0..MaxPages :
                    IF n = 0
                    THEN Return(t, [r EXCEPT !.result = "failed", !.msg = "tg_failed"])
                    ELSE Goto(t, [r EXCEPT !.npages = n, !.pc = "tgpublish"])
    /\ UNCHANGED <<chapters, searchVars, nextRef, started>>

\* upload_to_telegraph, lines 349-355: its own cache check, keyed by callback.data
TgPublishLookup(t) ==
    /\ ctask[t].pc = "tgpublish"
    /\ \E origin \in Origins :
          LET r == [ctask[t] EXCEPT !.origin = origin]
              mid == callback_manga_id(origin, r.ch)
              url == get_chapter_telegraph_url(chapters, mid, r.ch)
          IN  IF mid = NULL
              THEN \* int() raises ValueError outside the try block
                   Return(t, [r EXCEPT !.result = "raised"])
              ELSE IF url # NULL
              THEN Goto(t, [r EXCEPT !.url = url, !.pc = "tgsend"])
              ELSE Goto(t, [r EXCEPT !.pc = "tgcreate"])
    /\ UNCHANGED <<chapters, searchVars, nextRef, started>>

\* variant: a failed create_page that hands the request over to the document path
TgCreatePageFallback(t) ==
    /\ ctask[t].pc = "tgcreate"
    /\ LET r == [ctask[t] EXCEPT !.publishes = @ + 1] IN
       \E ok \in BOOLEAN :
          IF ok
          THEN /\ Goto(t, [r EXCEPT !.url = nextRef, !.pc = "tgrecord"])
               /\ nextRef' = nextRef + 1
          ELSE /\ Goto(t, [r EXCEPT !.pc = "cache"])
               /\ UNCHANGED nextRef
    /\ UNCHANGED <<chapters, searchVars, started>>

\* upload_to_telegraph, lines 357-383 and 392-408: telegraph.create_page
TgCreatePage(t) ==
    /\ ctask[t].pc = "tgcreate"
    /\ LET r == [ctask[t] EXCEPT !.publishes = @ + 1] IN
       \E ok \in BOOLEAN :
          IF ok
          THEN /\ Goto(t, [r EXCEPT !.url = nextRef, !.pc = "tgrecord"])
               /\ nextRef' = nextRef + 1
          ELSE /\ Return(t, [r EXCEPT !.result = "failed", !.msg = "tg_failed"])
               /\ UNCHANGED nextRef
    /\ UNCHANGED <<chapters, searchVars, started>>

\* upload_to_telegraph, lines 385-390 and 400-408: update_chapter_telegraph_url
TgRecord(t) ==
    /\ ctask[t].pc = "tgrecord"
    /\ LET r == ctask[t]
           mid == callback_manga_id(r.origin, r.ch)
       IN  \E ok \in BOOLEAN :
              IF ok
              THEN /\ chapters' = update_chapter_telegraph_url(chapters, mid, r.ch, r.url)
                   /\ Goto(t, [r EXCEPT !.pc = "tgsend"])
              ELSE /\ UNCHANGED chapters
                   /\ Return(t, [r EXCEPT !.url = NULL, !.result = "failed", !.msg = "tg_failed"])
    /\ UNCHANGED <<searchVars, nextRef, started>>

\* send_chapter_or_telegraph, lines 155-164: send the link
TgSend(t) ==
    /\ ctask[t].pc = "tgsend"
    /\ LET r == ctask[t] IN
       \E ok \in BOOLEAN :
          IF ok
          THEN Return(t, [r EXCEPT !.result = "success", !.sent = "ref", !.sentRef = r.url])
          ELSE Return(t, [r EXCEPT !.result = "raised", !.delivery = "refused"])
    /\ UNCHANGED <<chapters, searchVars, nextRef, started>>

(* ------------------------- legacy migration --------------------------- *)
\* migrate_cache, lines 58-88: one entry of cache_data.json. The migration script is
\* run on the database before the bot serves requests.
MigrateCacheEntry ==
    /\ started = 0
    /\ \E m \in Mangas, c \in ChapterNums, fmt \in {"pdf", "telegraph"}, ref \in LegacyRefs :
          chapters' = IF fmt = "pdf"
                      THEN save_chapter_to_db(chapters, m, c, ref, NULL)
                      ELSE save_chapter_to_db(chapters, m, c, NULL, ref)
    /\ UNCHANGED <<searchVars, ctask, nextRef, started, lastDone>>

(* --------------------------- search cache ----------------------------- *)
MangaIds == {1, 2}

\* a text is the sequence of its characters
QueryTexts == {<<"n", "a">>}

\* str.lower, on the letters the model uses
lower_char(ch) ==
    CASE ch = "N" -> "n"
      [] ch = "A" -> "a"
      [] ch = "O" -> "o"
      [] OTHER -> ch

lower(q) == [k \in DOMAIN q |-> lower_char(q[k])]

\* str.strip: leading and trailing whitespace removed
RECURSIVE lstrip(_)
lstrip(q) == IF q # <<>> /\ Head(q) = " " THEN lstrip(Tail(q)) ELSE q

RECURSIVE rstrip(_)
rstrip(q) == IF q # <<>> /\ q[Len(q)] = " " THEN rstrip(SubSeq(q, 1, Len(q) - 1)) ELSE q

strip(q) == rstrip(lstrip(q))

\* create_query_hash, line 217: query.lower().strip()
lower_strip(q) == strip(lower(q))

\* the alphabetical position of a filter key
KeyRank(key) ==
    CASE key = "genres" -> 1
      [] key = "kinds" -> 2
      [] OTHER -> 3

\* variant: the filters serialised in the order the dict was built
json_dumps_unsorted(filters) == filters

\* create_query_hash, line 219: json.dumps(filters, sort_keys=True); a dict is the
\* sequence of its <<key, value>> pairs in insertion order
json_dumps_sorted(filters) ==
    SortSeq(filters, LAMBDA x, y : KeyRank(x[1]) < KeyRank(y[1]))

\* get_mangas, line 135: filters = {"order_by": order_by}
QueryFilters == << <<"order_by", "popular">> >>

\* get_mangas_by_genres_and_kinds, lines 258-262, for one selected genre and no kind
GenreFilters == << <<"genres", "Action">>, <<"kinds", "">>, <<"order_by", "popular">> >>

\* create_query_hash: md5 of the normalised query followed by the sorted filters;
\* the digest is stood for by the text it is taken of
create_query_hash(query, filters) ==
    <<lower_strip(query), IF filters # <<>> THEN json_dumps_sorted(filters) ELSE <<>>>>

\* query texts as callers type them: case and surrounding whitespace vary
RawQueries == {<<"n", "a">>, <<" ", "N", "a", " ">>, <<"n", "o">>}

\* filter dicts as callers build them: none, and the one of
\* get_mangas_by_genres_and_kinds with its keys in two orders
RawFilters ==
    {<<>>, GenreFilters,
     << <<"order_by", "popular">>, <<"genres", "Action">>, <<"kinds", "">> >>}

Fingerprints ==
    {create_query_hash(q, f) : q \in RawQueries \cup QueryTexts \cup {<<>>},
                              f \in RawFilters \cup {QueryFilters}}

NoEntry == [exists |-> FALSE, results |-> <<>>, hit_count |-> 0, created_at |-> 0,
            expires_at |-> 0]

NoManga == [exists |-> FALSE, last_synced |-> 0]

CacheHours == 24

\* get_search_cache, lines 230-234: SELECT ... WHERE query_hash = ? AND expires_at > ?
search_cache_select(sc, fp, t) == sc[fp].exists /\ sc[fp].expires_at > t

\* get_search_cache, lines 238-241: UPDATE search_cache SET hit_count = hit_count + 1
search_cache_hit(sc, fp) ==
    IF sc[fp].exists THEN [sc EXCEPT ![fp].hit_count = @ + 1] ELSE sc

\* variant: the sweep that also takes the rows expiring at the sweep time
cleanup_expired_cache_leq(sc, t) ==
    [fp \in DOMAIN sc |-> IF sc[fp].exists /\ sc[fp].expires_at <= t THEN NoEntry ELSE sc[fp]]

\* cleanup_expired_cache: DELETE FROM search_cache WHERE expires_at < ?
cleanup_expired_cache(sc, t) ==
    [fp \in DOMAIN sc |-> IF sc[fp].exists /\ sc[fp].expires_at < t THEN NoEntry ELSE sc[fp]]

\* variant: the entry saved without its time to live
save_search_cache_no_ttl(sc, fp, ids, t) ==
    [sc EXCEPT ![fp] = [exists |-> TRUE, results |-> ids, hit_count |-> 0,
                        created_at |-> t, expires_at |-> t]]

\* save_search_cache: INSERT OR REPLACE with hit_count 0 and expires_at = now + cache_hours
save_search_cache(sc, fp, ids, t) ==
    [sc EXCEPT ![fp] = [exists |-> TRUE, results |-> ids, hit_count |-> 0,
                        created_at |-> t, expires_at |-> t + CacheHours]]

\* variant: a row that exists keeps its last_synced
save_manga_to_db_keep(mg, id, t) ==
    [mg EXCEPT ![id] = [exists |-> TRUE,
                        last_synced |-> IF mg[id].exists THEN mg[id].last_synced ELSE t]]

\* save_manga_to_db: INSERT OR REPLACE with last_synced = now
save_manga_to_db(mg, id, t) == [mg EXCEPT ![id] = [exists |-> TRUE, last_synced |-> t]]

\* the answers the origin gives to a search
OriginResults == {<<>>, <<1>>, <<2, 1>>}

\* the series of an answer whose record carries 'chapters' as an object, the shape
\* show_manga_chapter_grid reads (info['chapters']['list']); sqlite3 binds only
\* None, int, float, str and bytes
UnbindableChoices == {{}, {1}}

\* save_manga_to_db, line 111: manga_data.get('chapters', 0) is bound as a parameter
bindable(id, unbindable) == id \notin unbindable

(* --------------------------- series detail ---------------------------- *)
MaxMetaSearches == 2
MaxAgeHours == 24

\* is_manga_cached: the row exists and datetime.now() - last_synced < timedelta(hours)
is_manga_cached(mg, id, t, max_age_hours) ==
    mg[id].exists /\ t - mg[id].last_synced < max_age_hours

IdleInfo ==
    [pc |-> "idle", id |-> 0, use_cache |-> TRUE, requests |-> 0, reply |-> "none",
     result |-> "none"]

\* show_manga_chapter_grid, line 39: get_manga_info(manga_id, use_cache)
GiBegin ==
    /\ info.pc \in {"idle", "done"}
    /\ \E id \in MangaIds :
          info' = [IdleInfo EXCEPT !.pc = "lookup", !.id = id, !.use_cache = TRUE]
    /\ UNCHANGED <<chapters, users, now, ctask, nextRef, started, lastDone,
                   stask, search_cache, manga, searches, checksToday, api, cachecall, art>>

\* get_manga_info, lines 204-219: get_manga_from_db and is_manga_cached
GiLookup ==
    /\ info.pc = "lookup"
    /\ IF /\ info.use_cache
          /\ manga[info.id].exists
          /\ is_manga_cached(manga, info.id, now, MaxAgeHours)
       THEN info' = [info EXCEPT !.pc = "done", !.result = "cached"]
       ELSE info' = [info EXCEPT !.pc = "origin"]
    /\ UNCHANGED <<chapters, users, now, ctask, nextRef, started, lastDone,
                   stask, search_cache, manga, searches, checksToday, api, cachecall, art>>

\* what the origin's series-detail request can come back with
SeriesReplies == {"no_response", "not_json", "no_series", "plain", "chapter_list"}

\* variant: the stored record is returned when the origin gives no series
GiOriginStaleFallback ==
    /\ info.pc = "origin"
    /\ \E reply \in SeriesReplies :
          IF reply \in {"plain", "chapter_list"}
          THEN info' = [info EXCEPT !.pc = "save", !.requests = @ + 1, !.reply = reply]
          ELSE info' = [info EXCEPT !.pc = "done", !.requests = @ + 1,
                                    !.result = IF manga[info.id].exists
                                               THEN "cached" ELSE "empty"]
    /\ UNCHANGED <<chapters, users, now, ctask, nextRef, started, lastDone,
                   stask, search_cache, manga, searches, checksToday, api, cachecall, art>>

\* get_manga_info, lines 222-229 and 237-239: safe_api_call and response.json()
GiOrigin ==
    /\ info.pc = "origin"
    /\ \E reply \in SeriesReplies :
          IF reply \in {"plain", "chapter_list"}
          THEN info' = [info EXCEPT !.pc = "save", !.requests = @ + 1, !.reply = reply]
          ELSE info' = [info EXCEPT !.pc = "done", !.requests = @ + 1, !.result = "empty"]
    /\ UNCHANGED <<chapters, users, now, ctask, nextRef, started, lastDone,
                   stask, search_cache, manga, searches, checksToday, api, cachecall, art>>

\* get_manga_info, lines 232-239: save_manga_to_db, then return the metadata;
\* a series with a chapter list has 'chapters' as an object, which the INSERT
\* cannot bind: the exception is caught at line 237 and {} is returned
GiSave ==
    /\ info.pc = "save"
    /\ IF info.reply = "plain"
       THEN /\ manga' = save_manga_to_db(manga, info.id, now)
            /\ info' = [info EXCEPT !.pc = "done", !.result = "fetched"]
       ELSE /\ UNCHANGED manga
            /\ info' = [info EXCEPT !.pc = "done", !.result = "empty"]
    /\ UNCHANGED <<chapters, users, now, ctask, nextRef, started, lastDone,
                   stask, search_cache, searches, checksToday, api, cachecall, art>>

(* ------------------------------- quota -------------------------------- *)
\* get_or_create_user, lines 288-292: the row of a new user
NewUser(day) == [exists |-> TRUE, daily_requests |-> 0, monthly_requests |-> 0,
                 last_request_date |-> day]

\* variant: the rollover that moves the date and keeps the daily counter
reset_daily_date_only(us, u, day) ==
    IF us[u].exists
    THEN [us EXCEPT ![u].last_request_date = day]
    ELSE us

\* variant: the rollover that clears the monthly counter as well
reset_daily_and_monthly(us, u, day) ==
    IF us[u].exists
    THEN [us EXCEPT ![u].daily_requests = 0, ![u].monthly_requests = 0,
                    ![u].last_request_date = day]
    ELSE us

\* check_rate_limit, lines 311-318: UPDATE users SET daily_requests = 0, last_request_date = ?
reset_daily(us, u, day) ==
    IF us[u].exists
    THEN [us EXCEPT ![u].daily_requests = 0, ![u].last_request_date = day]
    ELSE us

\* variant: the usage added to the daily counter only
increment_daily_only(us, u) ==
    IF us[u].exists
    THEN [us EXCEPT ![u].daily_requests = @ + 1]
    ELSE us

\* increment_request_count: UPDATE users SET daily_requests + 1, monthly_requests + 1
increment_request_count(us, u) ==
    IF us[u].exists
    THEN [us EXCEPT ![u].daily_requests = @ + 1, ![u].monthly_requests = @ + 1]
    ELSE us

\* check_rate_limit run to its end on the users table: the verdict it returns
check_rate_limit(us, u, is_premium, day) ==
    LET row == IF us[u].exists THEN us[u] ELSE NewUser(day)
        cur == IF row.last_request_date # day THEN [row EXCEPT !.daily_requests = 0] ELSE row
    IN  limit_verdict(cur, is_premium)

(* -------------------------- search requests --------------------------- *)
IdleSearchTask ==
    [pc |-> "idle", kind |-> "query", user |-> 0, vip |-> FALSE, query |-> <<>>,
     fp |-> <<<<>>, <<>>>>, local |-> NoUser, verdict |-> "none", nth |-> 0, used |-> 0,
     served |-> "none", ids |-> <<>>, found |-> <<>>, i |-> 0, result |-> "none",
     unbindable |-> {}, fetched_at |-> 0, hits |-> 0]

SGoto(t, r) == stask' = [stask EXCEPT ![t] = r]

\* the handler returns
SReturn(t, r) ==
    stask' = [stask EXCEPT ![t] = [r EXCEPT !.pc = "done", !.ids = <<>>, !.i = 0]]

\* process_search_query, lines 148-159, and search_by_genres, lines 82-93
SqBegin(t) ==
    /\ stask[t].pc \in {"idle", "done"}
    /\ searches < MaxSearches
    /\ searches' = searches + 1
    /\ \E u \in Users, vip \in BOOLEAN, kind \in {"query", "genres"}, blank \in BOOLEAN,
          q \in QueryTexts :
          LET text == IF kind = "query" THEN q ELSE <<>>
              r == [IdleSearchTask EXCEPT !.kind = kind, !.user = u, !.vip = vip,
                       !.query = text,
                       !.fp = IF kind = "query" THEN create_query_hash(text, QueryFilters)
                              ELSE create_query_hash(text, GenreFilters)]
          IN  IF blank
              THEN \* empty query text, or no genre and no kind selected
                   SReturn(t, [r EXCEPT !.result = "rejected"])
              ELSE SGoto(t, [r EXCEPT !.pc = "qc_select"])
    /\ UNCHANGED <<chapterVars, users, now, search_cache, manga, checksToday>>

\* get_or_create_user, lines 282-285: SELECT * FROM users WHERE user_id = ?
QcSelect(t) ==
    /\ stask[t].pc = "qc_select"
    /\ LET r == stask[t] IN
       IF users[r.user].exists
       THEN SGoto(t, [r EXCEPT !.local = users[r.user], !.pc = "qc_decide"])
       ELSE SGoto(t, [r EXCEPT !.pc = "qc_insert"])
    /\ UNCHANGED <<chapterVars, users, now, search_cache, manga, searches, checksToday>>

\* get_or_create_user, lines 288-293: INSERT INTO users; user_id is the primary key
QcInsert(t) ==
    /\ stask[t].pc = "qc_insert"
    /\ LET r == stask[t] IN
       IF users[r.user].exists
       THEN \* IntegrityError leaves check_rate_limit and the handler
            /\ SReturn(t, [r EXCEPT !.result = "raised"])
            /\ UNCHANGED users
       ELSE /\ users' = [users EXCEPT ![r.user] = NewUser(today)]
            /\ SGoto(t, [r EXCEPT !.pc = "qc_reselect"])
    /\ UNCHANGED <<chapterVars, now, search_cache, manga, searches, checksToday>>

\* get_or_create_user, lines 296-298: read the new row back
QcReselect(t) ==
    /\ stask[t].pc = "qc_reselect"
    /\ SGoto(t, [stask[t] EXCEPT !.local = users[stask[t].user], !.pc = "qc_decide"])
    /\ UNCHANGED <<chapterVars, users, now, search_cache, manga, searches, checksToday>>

\* check_rate_limit, lines 308-330: day rollover, then the limits;
\* the handler's branch on can_proceed follows without touching shared state
QcDecide(t) ==
    /\ stask[t].pc = "qc_decide"
    /\ LET r == stask[t]
           rollover == r.local.last_request_date # today
           local == IF rollover THEN [r.local EXCEPT !.daily_requests = 0] ELSE r.local
           verdict == limit_verdict(local, r.vip)
           r2 == [r EXCEPT !.local = local, !.verdict = verdict,
                           !.nth = checksToday[r.user] + 1]
       IN  /\ users' = IF rollover THEN reset_daily(users, r.user, today) ELSE users
           /\ checksToday' = [checksToday EXCEPT ![r.user] = @ + 1]
           /\ IF verdict = "ok"
              THEN SGoto(t, [r2 EXCEPT !.pc = "increment"])
              ELSE SReturn(t, [r2 EXCEPT !.result = "denied"])
    /\ UNCHANGED <<chapterVars, now, search_cache, manga, searches>>

\* variant: usage recorded only when the search is not answered by the cache
SqIncrementOnMiss(t) ==
    /\ stask[t].pc = "increment"
    /\ IF search_cache_select(search_cache, stask[t].fp, now)
       THEN /\ UNCHANGED users
            /\ SGoto(t, [stask[t] EXCEPT !.pc = "gm_select"])
       ELSE /\ users' = increment_request_count(users, stask[t].user)
            /\ SGoto(t, [stask[t] EXCEPT !.used = @ + 1, !.pc = "gm_select"])
    /\ UNCHANGED <<chapterVars, now, search_cache, manga, searches, checksToday>>

\* process_search_query, line 171, and search_by_genres, line 111: increment_user_request
SqIncrement(t) ==
    /\ stask[t].pc = "increment"
    /\ users' = increment_request_count(users, stask[t].user)
    /\ SGoto(t, [stask[t] EXCEPT !.used = @ + 1, !.pc = "gm_select"])
    /\ UNCHANGED <<chapterVars, now, search_cache, manga, searches, checksToday>>

\* get_mangas, lines 134-136, and get_search_cache, lines 227-234
GmCacheSelect(t) ==
    /\ stask[t].pc = "gm_select"
    /\ LET r == stask[t] IN
       IF search_cache_select(search_cache, r.fp, now)
       THEN \* hits: the row's hit_count when the SELECT ran
            SGoto(t, [r EXCEPT !.ids = search_cache[r.fp].results,
                               !.hits = search_cache[r.fp].hit_count, !.pc = "gm_hit"])
       ELSE SGoto(t, [r EXCEPT !.pc = "gm_origin"])
    /\ UNCHANGED <<chapterVars, users, now, search_cache, manga, searches, checksToday>>

\* variant: the hit counter written back from the value seen by the SELECT
GmCacheHitStale(t) ==
    /\ stask[t].pc = "gm_hit"
    /\ search_cache' = [search_cache EXCEPT ![stask[t].fp].hit_count = stask[t].hits + 1]
    /\ LET r == stask[t]
           mangas == SelectSeq(r.ids, LAMBDA id : manga[id].exists)
       IN  IF mangas # <<>>
           THEN SReturn(t, [r EXCEPT !.served = "cache", !.found = mangas, !.result = "found"])
           ELSE SGoto(t, [r EXCEPT !.pc = "gm_origin"])
    /\ UNCHANGED <<chapterVars, users, now, manga, searches, checksToday>>

\* variant: the cached answer is used only when every cached id resolves
GmCacheHitAll(t) ==
    /\ stask[t].pc = "gm_hit"
    /\ search_cache' = search_cache_hit(search_cache, stask[t].fp)
    /\ LET r == stask[t]
           mangas == SelectSeq(r.ids, LAMBDA id : manga[id].exists)
       IN  IF mangas = r.ids
           THEN SReturn(t, [r EXCEPT !.served = "cache", !.found = mangas, !.result = "found"])
           ELSE SGoto(t, [r EXCEPT !.pc = "gm_origin"])
    /\ UNCHANGED <<chapterVars, users, now, manga, searches, checksToday>>

\* get_search_cache, lines 236-244, and get_mangas, lines 138-159: count the hit,
\* resolve the ids through the manga table
GmCacheHit(t) ==
    /\ stask[t].pc = "gm_hit"
    /\ search_cache' = search_cache_hit(search_cache, stask[t].fp)
    /\ LET r == stask[t]
           mangas == SelectSeq(r.ids, LAMBDA id : manga[id].exists)
       IN  IF mangas # <<>>
           THEN SReturn(t, [r EXCEPT !.served = "cache", !.found = mangas, !.result = "found"])
           ELSE SGoto(t, [r EXCEPT !.pc = "gm_origin"])
    /\ UNCHANGED <<chapterVars, users, now, manga, searches, checksToday>>

\* variant: an empty answer of the origin is cached like any other
GmOriginCachingEmpty(t) ==
    /\ stask[t].pc = "gm_origin"
    /\ LET r == stask[t] IN
       \E outcome \in {"no_response", "error", "list"} :
          IF outcome # "list"
          THEN SReturn(t, [r EXCEPT !.served = "failed", !.result = "not_found"])
          ELSE \E l \in OriginResults :
                  \E odd \in UnbindableChoices :
                     SGoto(t, [r EXCEPT !.found = l, !.unbindable = odd,
                                        !.fetched_at = now, !.pc = "gm_save"])
    /\ UNCHANGED <<chapterVars, users, now, search_cache, manga, searches, checksToday>>

\* get_mangas, lines 162-177 and 188-190: the origin search
GmOrigin(t) ==
    /\ stask[t].pc = "gm_origin"
    /\ LET r == stask[t] IN
       \E outcome \in {"no_response", "error", "list"} :
          IF outcome # "list"
          THEN SReturn(t, [r EXCEPT !.served = "failed", !.result = "not_found"])
          ELSE \E l \in OriginResults :
                  IF l = <<>>
                  THEN SReturn(t, [r EXCEPT !.served = "origin", !.result = "not_found"])
                  ELSE \E odd \in UnbindableChoices :
                          SGoto(t, [r EXCEPT !.found = l, !.unbindable = odd,
                                             !.fetched_at = now, !.pc = "gm_save"])
    /\ UNCHANGED <<chapterVars, users, now, search_cache, manga, searches, checksToday>>

\* get_mangas, lines 178-180: save_search_cache
GmSaveSearch(t) ==
    /\ stask[t].pc = "gm_save"
    /\ search_cache' = save_search_cache(search_cache, stask[t].fp, stask[t].found, now)
    /\ SGoto(t, [stask[t] EXCEPT !.i = 1, !.pc = "gm_save_manga"])
    /\ UNCHANGED <<chapterVars, users, now, manga, searches, checksToday>>

\* get_mangas, lines 183-190: save_manga_to_db for each series, then return;
\* an exception of the INSERT is caught at line 188 and the search returns [], {}
GmSaveManga(t) ==
    /\ stask[t].pc = "gm_save_manga"
    /\ LET r == stask[t] IN
       IF r.i <= Len(r.found)
       THEN IF bindable(r.found[r.i], r.unbindable)
            THEN /\ manga' = save_manga_to_db(manga, r.found[r.i], now)
                 /\ SGoto(t, [r EXCEPT !.i = @ + 1])
            ELSE /\ UNCHANGED manga
                 /\ SReturn(t, [r EXCEPT !.served = "origin", !.result = "not_found"])
       ELSE /\ UNCHANGED manga
            /\ SReturn(t, [r EXCEPT !.served = "origin", !.result = "found"])
    /\ UNCHANGED <<chapterVars, users, now, search_cache, searches, checksToday>>

\* the calendar moves on to the next day
TickDay ==
    /\ today < MaxDay
    /\ now' = now + HoursPerDay
    /\ checksToday' = [u \in Users |-> 0]
    /\ UNCHANGED <<chapterVars, users, stask, search_cache, manga, searches>>

(* ---------------------- Search Result Cache calls --------------------- *)
NoCall == [query |-> <<>>, filters |-> <<>>, key |-> <<<<>>, <<>>>>]

IdleCacheCall ==
    [op |-> "none", query |-> <<>>, filters |-> <<>>, key |-> <<<<>>, <<>>>>, at |-> 0,
     found |-> "none", results |-> <<>>, prev |-> NoCall, n |-> 0, ticks |-> 0,
     deleted |-> {}]

\* the call that is made: its input, its fingerprint, the time, and the call before it
NextCall(op, q, f) ==
    [cachecall EXCEPT !.op = op, !.query = q, !.filters = f,
                      !.key = create_query_hash(q, f), !.at = now,
                      !.found = "none", !.results = <<>>,
                      !.prev = [query |-> cachecall.query, filters |-> cachecall.filters,
                                key |-> cachecall.key],
                      !.n = @ + 1, !.deleted = {}]

\* save_search_cache(query, filters, manga_ids)
CacheSave ==
    /\ cachecall.n < MaxCacheOps
    /\ \E q \in RawQueries, f \in RawFilters, ids \in OriginResults \ {<<>>} :
          LET c == NextCall("save", q, f) IN
          /\ search_cache' = save_search_cache(search_cache, c.key, ids, now)
          /\ cachecall' = c
    /\ UNCHANGED <<chapters, users, now, ctask, nextRef, started, lastDone,
                   stask, manga, searches, checksToday, api, info, art>>

\* variant: the hit counter updated whether or not the SELECT found a row
CacheGetCounting ==
    /\ cachecall.n < MaxCacheOps
    /\ \E q \in RawQueries, f \in RawFilters :
          LET c == NextCall("get", q, f)
              hit == search_cache_select(search_cache, c.key, now)
          IN  /\ search_cache' = search_cache_hit(search_cache, c.key)
              /\ cachecall' = IF hit
                              THEN [c EXCEPT !.found = "present",
                                             !.results = search_cache[c.key].results]
                              ELSE [c EXCEPT !.found = "absent"]
    /\ UNCHANGED <<chapters, users, now, ctask, nextRef, started, lastDone,
                   stask, manga, searches, checksToday, api, info, art>>

\* get_search_cache(query, filters)
CacheGet ==
    /\ cachecall.n < MaxCacheOps
    /\ \E q \in RawQueries, f \in RawFilters :
          LET c == NextCall("get", q, f)
              hit == search_cache_select(search_cache, c.key, now)
          IN  /\ search_cache' = IF hit THEN search_cache_hit(search_cache, c.key)
                                 ELSE search_cache
              /\ cachecall' = IF hit
                              THEN [c EXCEPT !.found = "present",
                                             !.results = search_cache[c.key].results]
                              ELSE [c EXCEPT !.found = "absent"]
    /\ UNCHANGED <<chapters, users, now, ctask, nextRef, started, lastDone,
                   stask, manga, searches, checksToday, api, info, art>>

\* time passes between two calls: an hour, or an hour less than the time to live
CacheTick ==
    /\ cachecall.ticks < MaxTicks
    /\ \E d \in {1, CacheHours - 1} : now' = now + d
    /\ cachecall' = [cachecall EXCEPT !.ticks = @ + 1]
    /\ UNCHANGED <<chapters, users, ctask, nextRef, started, lastDone,
                   stask, search_cache, manga, searches, checksToday, api, info, art>>

\* periodic_cleanup, lines 159-168: cleanup_old_cache, which calls cleanup_expired_cache
CacheSweep ==
    /\ search_cache' = cleanup_expired_cache(search_cache, now)
    /\ cachecall' = [cachecall EXCEPT !.op = "sweep",
                        !.deleted = {fp \in DOMAIN search_cache :
                                        search_cache[fp].exists /\ ~search_cache'[fp].exists}]
    /\ UNCHANGED <<chapters, users, now, ctask, nextRef, started, lastDone,
                   stask, manga, searches, checksToday, api, info, art>>

(* ------------------------- search_cache rows -------------------------- *)
\* the fingerprints the row-level calls are made with
RowFingerprints == {create_query_hash(q, <<>>) : q \in {<<"n", "a">>, <<"n", "o">>}}

\* the rows of query_hash = fp
SearchRowsOf(rows, fp) == {r \in rows : r.query_hash = fp}

\* variant: a plain INSERT into a table without UNIQUE on query_hash
insert_search_row(rows, row) == rows \cup {row}

\* INSERT OR REPLACE under query_hash TEXT UNIQUE (init_database, line 56): the row
\* in conflict is deleted before the new row goes in
replace_search_row(rows, row) == (rows \ SearchRowsOf(rows, row.query_hash)) \cup {row}

\* save_search_cache, lines 249-264, on the rows of the table
RowSave ==
    /\ art.n < MaxPuts
    /\ \E fp \in RowFingerprints, ids \in OriginResults \ {<<>>} :
          LET row == [id |-> art.search_nextid, query_hash |-> fp, results |-> ids,
                      hit_count |-> 0, created_at |-> now, expires_at |-> now + CacheHours]
              old == SearchRowsOf(art.search_rows, fp)
          IN  art' = [art EXCEPT
                        !.search_rows = replace_search_row(art.search_rows, row),
                        !.search_nextid = @ + 1,
                        !.search_last = [fp |-> fp, ids |-> ids, at |-> now,
                                         had |-> old # {},
                                         hits |-> IF old = {} THEN 0
                                                  ELSE (CHOOSE r \in old : TRUE).hit_count],
                        !.n = @ + 1]
    /\ UNCHANGED <<chapters, users, now, ctask, nextRef, started, lastDone, stask,
                   search_cache, manga, searches, checksToday, api, cachecall, info>>

\* get_search_cache, lines 224-246, on the rows of the table: the SELECT with
\* expires_at > now, and the UPDATE of hit_count when it found a row
RowGet ==
    /\ art.n < MaxPuts
    /\ \E fp \in RowFingerprints :
          LET found == {r \in SearchRowsOf(art.search_rows, fp) : r.expires_at > now} IN
          art' = [art EXCEPT
                    !.search_rows = IF found = {} THEN @
                                    ELSE {IF r.query_hash = fp
                                          THEN [r EXCEPT !.hit_count = @ + 1] ELSE r : r \in @},
                    !.n = @ + 1]
    /\ UNCHANGED <<chapters, users, now, ctask, nextRef, started, lastDone, stask,
                   search_cache, manga, searches, checksToday, api, cachecall, info>>

(* --------------------------- Origin Client ---------------------------- *)
\* safe_api_call, line 48: max_retries
MaxRetries == 3

\* safe_api_call, line 71: wait_time after HTTP 429, in seconds
RateLimitWait == 300

\* variant: the 403 wait counted from attempt 0
forbidden_wait_from_zero(attempt) == 60 * attempt

\* safe_api_call, line 85: wait_time after HTTP 403, in seconds
forbidden_wait(attempt) == 60 * (attempt + 1)

\* variant: a linear backoff
backoff_wait_linear(attempt) == 2 * attempt

\* safe_api_call, line 99: the backoff after a RequestException, in seconds
backoff_wait(attempt) == 2 ^ attempt

\* what one _session.get can end in: a 2xx response, HTTP 429, HTTP 403, another
\* status raise_for_status rejects, a transport RequestException, any other exception
Statuses == {"ok", "429", "403", "http_error", "transport", "other"}

\* USER_AGENTS, lines 20-26: the identities a session can carry (two of the five)
USER_AGENTS == {"chrome_windows", "safari_mac"}

\* sessions: how many times _session was replaced; ua: the User-Agent header of the
\* session _session refers to
IdleApi == [pc |-> "idle", attempt |-> 0, statuses |-> <<>>, sleeps |-> <<>>,
            sessions |-> 0, ua |-> "chrome_windows", result |-> "none", calls |-> 0,
            banlog |-> 0]

\* safe_api_call is called
ApiBegin ==
    /\ api.pc \in {"idle", "done"}
    /\ api.calls < MaxCalls
    /\ api' = [IdleApi EXCEPT !.pc = "request", !.calls = api.calls + 1,
                              !.banlog = api.banlog, !.ua = api.ua]
    /\ UNCHANGED <<chapters, users, now, ctask, nextRef, started, lastDone,
                   stask, search_cache, manga, searches, checksToday, cachecall, info, art>>

\* variant: a 429 is waited out without using up an attempt
ApiAttemptRateLimitFree ==
    /\ api.pc = "request"
    /\ api.attempt < MaxRetries
    /\ \E st \in Statuses, rotated \in USER_AGENTS, fresh \in USER_AGENTS :
          LET a == api.attempt
              last == a = MaxRetries - 1
              \* lines 64-65: _session.headers.update before every retry
              r == [api EXCEPT !.statuses = Append(@, st),
                               !.ua = IF a > 0 THEN rotated ELSE @]
              failed(rec) == [rec EXCEPT !.pc = "done", !.result = "failed"]
              again(rec) == [rec EXCEPT !.attempt = a + 1]
          IN  CASE st = "ok" ->
                     api' = [r EXCEPT !.pc = "done", !.result = "response"]
                [] st = "429" ->
                     LET slept == [r EXCEPT !.sleeps = Append(@, RateLimitWait)]
                     IN  api' = slept
                [] st = "403" ->
                     LET logged == [r EXCEPT !.banlog = @ + 1]
                     IN  api' = IF last
                                THEN failed(logged)
                                ELSE \* line 88: _session = create_session()
                                     again([logged EXCEPT
                                              !.sleeps = Append(@, forbidden_wait(a)),
                                              !.sessions = @ + 1, !.ua = fresh])
                [] st \in {"http_error", "transport"} ->
                     api' = IF last
                            THEN failed(r)
                            ELSE again([r EXCEPT !.sleeps = Append(@, backoff_wait(a))])
                [] OTHER ->
                     api' = failed(r)
    /\ UNCHANGED <<chapters, users, now, ctask, nextRef, started, lastDone,
                   stask, search_cache, manga, searches, checksToday, cachecall, info, art>>

\* safe_api_call, lines 61-107: one turn of the for loop
ApiAttempt ==
    /\ api.pc = "request"
    /\ api.attempt < MaxRetries
    /\ \E st \in Statuses, rotated \in USER_AGENTS, fresh \in USER_AGENTS :
          LET a == api.attempt
              last == a = MaxRetries - 1
              \* lines 64-65: _session.headers.update before every retry
              r == [api EXCEPT !.statuses = Append(@, st),
                               !.ua = IF a > 0 THEN rotated ELSE @]
              failed(rec) == [rec EXCEPT !.pc = "done", !.result = "failed"]
              again(rec) == [rec EXCEPT !.attempt = a + 1]
          IN  CASE st = "ok" ->
                     api' = [r EXCEPT !.pc = "done", !.result = "response"]
                [] st = "429" ->
                     \* sleep, continue; after the last turn the loop ends: return None
                     LET slept == [r EXCEPT !.sleeps = Append(@, RateLimitWait)]
                     IN  api' = IF last THEN failed(slept) ELSE again(slept)
                [] st = "403" ->
                     LET logged == [r EXCEPT !.banlog = @ + 1]
                     IN  api' = IF last
                                THEN failed(logged)
                                ELSE \* line 88: _session = create_session()
                                     again([logged EXCEPT
                                              !.sleeps = Append(@, forbidden_wait(a)),
                                              !.sessions = @ + 1, !.ua = fresh])
                [] st \in {"http_error", "transport"} ->
                     api' = IF last
                            THEN failed(r)
                            ELSE again([r EXCEPT !.sleeps = Append(@, backoff_wait(a))])
                [] OTHER ->
                     api' = failed(r)
    /\ UNCHANGED <<chapters, users, now, ctask, nextRef, started, lastDone,
                   stask, search_cache, manga, searches, checksToday, cachecall, info, art>>

(* --------------------------- specification ---------------------------- *)
\* a standard user who has used up the day
ChapterUsers ==
    [u \in Users |-> [exists |-> TRUE, daily_requests |-> daily_limit(FALSE),
                      monthly_requests |-> daily_limit(FALSE), last_request_date |-> 0]]

ChapterInit ==
    /\ chapters = [k \in ChapterKeys |-> NoChapter]
    /\ users = ChapterUsers
    /\ now = 0
    /\ ctask = [t \in Tasks |-> IdleChapterTask]
    /\ nextRef = 1
    /\ started = 0
    /\ lastDone = NoRequest
    /\ stask = [t \in Tasks |-> IdleSearchTask]
    /\ search_cache = [fp \in Fingerprints |-> NoEntry]
    /\ manga = [id \in MangaIds |-> NoManga]
    /\ searches = 0
    /\ api = IdleApi
    /\ cachecall = IdleCacheCall
    /\ info = IdleInfo
    /\ art = EmptyArt
    /\ checksToday = [u \in Users |-> 0]

ChapterStep(t) ==
    \/ ChBegin(t)
    \/ ChCheckCache(t)
    \/ ChSendCached(t)
    \/ PlFetchPageList(t)
    \/ PlDownloadPage(t)
    \/ PlAssemble(t)
    \/ PlUpload(t)
    \/ PlRecord(t)
    \/ PlDeliver(t)
    \/ TgCheckCache(t)
    \/ TgSendCached(t)
    \/ TgFetchPageList(t)
    \/ TgPublishLookup(t)
    \/ TgCreatePage(t)
    \/ TgRecord(t)
    \/ TgSend(t)

\* requests served one after another
ChapterNext ==
    \/ ChapterStep(1)
    \/ MigrateCacheEntry

SpecChapter == ChapterInit /\ [][ChapterNext]_vars

\* rows a user can have reached on earlier requests: <<daily, monthly, last day>>
InitUserRows ==
    {[exists |-> TRUE, daily_requests |-> x[1], monthly_requests |-> x[2],
      last_request_date |-> x[3]] :
        x \in {<<9, 99, 0>>, <<9, 298, 0>>, <<99, 99, 0>>, <<99, 2998, 0>>,
               <<10, 299, -1>>, <<99, 298, -1>>, <<10, 300, -1>>}}

QuotaInit ==
    /\ chapters = [k \in ChapterKeys |-> NoChapter]
    /\ users \in [Users -> InitUserRows \cup {NoUser}]
    /\ now = 0
    /\ ctask = [t \in Tasks |-> IdleChapterTask]
    /\ nextRef = 1
    /\ started = 0
    /\ lastDone = NoRequest
    /\ stask = [t \in Tasks |-> IdleSearchTask]
    /\ search_cache = [fp \in Fingerprints |-> NoEntry]
    /\ manga = [id \in MangaIds |-> NoManga]
    /\ searches = 0
    /\ api = IdleApi
    /\ cachecall = IdleCacheCall
    /\ info = IdleInfo
    /\ art = EmptyArt
    /\ checksToday = [u \in Users |->
                        IF users[u].exists /\ users[u].last_request_date = DayOf(0)
                        THEN users[u].daily_requests ELSE 0]

SearchStep(t) ==
    \/ SqBegin(t)
    \/ QcSelect(t)
    \/ QcInsert(t)
    \/ QcReselect(t)
    \/ QcDecide(t)
    \/ SqIncrement(t)
    \/ GmCacheSelect(t)
    \/ GmCacheHit(t)
    \/ GmOrigin(t)
    \/ GmSaveSearch(t)
    \/ GmSaveManga(t)

\* search requests served one after another
QuotaNext ==
    \/ SearchStep(1)
    \/ TickDay

SpecQuota == QuotaInit /\ [][QuotaNext]_vars

(* ----------------------------- properties ----------------------------- *)
\* the request got past the session checks of send_chapter_or_telegraph
PastSession(r) == r.pc # "idle" /\ r.msg \notin {"no_session", "no_chapter"}

\* the request follows a successful request for the same chapter in the same format
Repeats(r) ==
    /\ r.prev.path = r.path
    /\ r.prev.manga = r.manga
    /\ r.prev.ch = r.ch

\* positions of a handler inside the download-and-publish pipeline
PipelinePcs ==
    {"fetch", "pages", "upload", "record", "deliver",
     "tgfetch", "tgpublish", "tgcreate", "tgrecord", "tgsend"}

\* C1: a document request that follows a successful document request for the same
\* chapter, whose upload to the storage channel returned a handle, finds that handle
\* in the chapters table and, unless the handle is refused on delivery, asks the
\* origin for nothing.
C1_RepeatServedFromCache ==
    \A t \in Tasks :
        LET r == ctask[t] IN
        (/\ PastSession(r)
         /\ r.pc # "cache"
         /\ r.path = "pdf"
         /\ Repeats(r)
         /\ r.prev.file_id # NULL)
        => /\ r.cached = r.prev.file_id
           /\ (~r.stale => r.fetches = 0)

\* C2: a chapter request is inside the pipeline only if check_rate_limit allows its user.
C2_PipelineOnlyWhenAllowed ==
    \A t \in Tasks :
        ctask[t].pc \in PipelinePcs
        => check_rate_limit(users, ctask[t].user, ctask[t].vip, today) = "ok"

\* the reference the chapters table holds for the request's chapter and format
StoredRef(r) ==
    IF r.path = "pdf"
    THEN get_chapter_file_id(chapters, r.manga, r.ch)
    ELSE get_chapter_telegraph_url(chapters, r.manga, r.ch)

\* C3: a request answered from the cache sends the reference the chapters table
\* holds, makes no origin request, no upload and no publish, and no step of a request
\* that has not reached the origin changes the chapters table or the users table.
C3_CacheHitFrame ==
    /\ [](\A t \in Tasks :
            LET r == ctask[t] IN
            (r.pc = "done" /\ r.result = "cache_hit")
            => /\ r.cached # NULL
               /\ r.sentRef = r.cached
               /\ r.sentRef = StoredRef(r)
               /\ r.fetches = 0 /\ r.pageGets = 0
               /\ r.uploads = 0 /\ r.publishes = 0)
    /\ [][\A t \in Tasks :
            (ctask'[t] # ctask[t] /\ ctask'[t].fetches = 0)
            => (chapters' = chapters /\ users' = users)]_vars

C3_Witness ==
    \E t \in Tasks :
        /\ ctask[t].pc = "done"
        /\ ctask[t].result = "cache_hit"
        /\ ctask[t].path = "pdf"
        /\ ctask[t].sentRef \in LegacyRefs

\* the search request has had its quota check decided
Decided(r) == r.pc # "idle" /\ r.verdict # "none"

\* C4 as the specification words it: for a standard user the first daily_limit checks
\* of a day are allowed and every later check of that day is denied for the daily limit.
C4_FirstTenAllowed ==
    \A t \in Tasks :
        LET r == stask[t] IN
        (Decided(r) /\ ~r.vip)
        => /\ (r.nth <= daily_limit(FALSE) => r.verdict = "ok")
           /\ (r.nth > daily_limit(FALSE) => r.verdict = "daily")

\* C4: for a standard user whose monthly counter is below the monthly limit at the
\* check, the first daily_limit checks of a day are allowed and every later check of
\* that day is denied for the daily limit.
C4_FirstTenAllowedBelowMonthly ==
    \A t \in Tasks :
        LET r == stask[t] IN
        (Decided(r) /\ ~r.vip /\ r.local.monthly_requests < monthly_limit(FALSE))
        => /\ (r.nth <= daily_limit(FALSE) => r.verdict = "ok")
           /\ (r.nth > daily_limit(FALSE) => r.verdict = "daily")

C4_Witness ==
    \E t \in Tasks :
        /\ Decided(stask[t])
        /\ ~stask[t].vip
        /\ stask[t].nth = daily_limit(FALSE) + 1
        /\ stask[t].local.monthly_requests < monthly_limit(FALSE)
        /\ stask[t].verdict = "daily"

\* C5: the quota check that finds a stored last request date other than today sets the
\* stored daily counter to 0 and the stored date to today, compares the limits with a
\* daily counter of 0, and allows the request exactly when the monthly counter is
\* below the monthly limit.
C5_DayRollover ==
    [][\A t \in Tasks :
         LET r == stask[t] IN
         (/\ r.pc = "qc_decide"
          /\ stask'[t].pc # "qc_decide"
          /\ r.local.last_request_date # today)
         => /\ users'[r.user].daily_requests = 0
            /\ users'[r.user].last_request_date = today
            /\ stask'[t].local.daily_requests = 0
            /\ (r.local.monthly_requests < monthly_limit(r.vip)
                   => stask'[t].verdict = "ok")
            /\ (r.local.monthly_requests >= monthly_limit(r.vip)
                   => stask'[t].verdict = "monthly")]_vars

\* a standard user at the daily limit on an earlier day is allowed on the first check
\* of today
C5_Witness ==
    \E t \in Tasks :
        LET r == stask[t] IN
        /\ r.pc = "increment"
        /\ ~r.vip
        /\ r.nth = 1
        /\ r.local.daily_requests = 0
        /\ r.local.monthly_requests >= daily_limit(FALSE)
        /\ users[r.user].last_request_date = today
        /\ users[r.user].daily_requests = 0

\* positions of a search handler after its usage was recorded
SearchingPcs == {"gm_select", "gm_hit", "gm_origin", "gm_save", "gm_save_manga"}

\* C6: a search that passed the quota check has recorded exactly one usage, and the
\* user's counters are one above what the check read, whether the result came from
\* the search cache or from the origin; a denied search has recorded none.
C6_OneUsagePerSearch ==
    \A t \in Tasks :
        LET r == stask[t]
            row == users[r.user]
        IN  /\ (r.pc \in SearchingPcs \/ (r.pc = "done" /\ r.served # "none"))
               => /\ r.verdict = "ok"
                  /\ r.used = 1
                  /\ row.daily_requests = r.local.daily_requests + 1
                  /\ row.monthly_requests = r.local.monthly_requests + 1
            /\ (r.pc = "done" /\ r.result = "denied")
               => /\ r.used = 0
                  /\ row.daily_requests = r.local.daily_requests
                  /\ row.monthly_requests = r.local.monthly_requests

C6_Witness ==
    \E t \in Tasks :
        /\ stask[t].pc = "done"
        /\ stask[t].served = "cache"
        /\ stask[t].used = 1

PageSet(s) == {s[k] : k \in DOMAIN s}

Increasing(s) == \A j, k \in DOMAIN s : j < k => s[j] < s[k]

\* the page loop of download_chapter has run to its end
LoopDone(r) == r.path = "pdf" /\ r.pc \notin {"idle", "pages"} /\ r.i > r.npages

\* download_chapter has produced a document
Assembled(r) == r.path = "pdf" /\ r.doc # <<>>

\* C7: of N pages of which M failed, the assembled document holds exactly the N - M
\* pages that were downloaded, in their original order, when M < N; when M = N the
\* download ends with the no-pages-downloaded failure and nothing is assembled,
\* uploaded or delivered.
C7_PartialPages ==
    \A t \in Tasks :
        LET r == ctask[t]
            M == Cardinality(r.bad)
        IN  /\ Assembled(r)
               => /\ M < r.npages
                  /\ Len(r.doc) = r.npages - M
                  /\ Increasing(r.doc)
                  /\ PageSet(r.doc) = (1..r.npages) \ r.bad
            /\ (LoopDone(r) /\ M < r.npages /\ r.msg # "unexpected") => Assembled(r)
            /\ (LoopDone(r) /\ M = r.npages)
               => /\ r.pc = "done" /\ r.result = "failed" /\ r.msg = "empty"
                  /\ r.doc = <<>> /\ r.uploads = 0 /\ r.file_id = NULL
                  /\ r.delivery = "none"
            /\ (r.pc = "done" /\ r.msg = "empty") => (LoopDone(r) /\ M = r.npages)

C7_Witness ==
    \E t \in Tasks :
        /\ ctask[t].pc = "done"
        /\ ctask[t].result = "success"
        /\ ctask[t].npages = MaxPages
        /\ ctask[t].bad # {}
        /\ Len(ctask[t].doc) = MaxPages - Cardinality(ctask[t].bad)

\* C8: a document larger than 50 MiB ends the download with the too-large failure
\* before any upload, and no step that reports it changes the chapters table; a
\* document of at most 50 MiB goes on to the upload and the delivery.
C8_SizeLimit ==
    /\ [](\A t \in Tasks :
            LET r == ctask[t] IN
            /\ (r.pc = "done" /\ r.msg = "too_large")
               => /\ r.size > MaxPdfBytes
                  /\ r.result = "failed"
                  /\ r.uploads = 0 /\ r.file_id = NULL /\ r.delivery = "none"
            /\ (Assembled(r) /\ r.size > MaxPdfBytes)
               => (r.pc = "done" /\ r.msg = "too_large")
            /\ (Assembled(r) /\ r.size <= MaxPdfBytes)
               => /\ r.msg # "too_large"
                  /\ (r.pc = "upload" \/ r.uploads = 1))
    /\ [][\A t \in Tasks :
            (ctask[t].msg # "too_large" /\ ctask'[t].msg = "too_large")
            => chapters' = chapters]_vars

C8_Witness ==
    \E t \in Tasks :
        /\ ctask[t].pc = "done"
        /\ ctask[t].result = "success"
        /\ ctask[t].size = MaxPdfBytes
        /\ ctask[t].uploads = 1

\* failures download_chapter reports before anything is uploaded
EarlyFailures == {"no_data", "no_pages", "empty", "too_large", "unexpected"}

\* C9: a request changes the file_id of a chapters row only in the record step, after
\* the page list was fetched, at least one page was downloaded, the size check passed
\* and the storage channel returned the handle that is written; a step that ends a
\* request in failure leaves the chapters table as it is, and a request that failed
\* inside download_chapter has uploaded nothing.
C9_RecordAfterStages ==
    /\ [][\A k \in ChapterKeys :
            (ctask' # ctask /\ chapters'[k].file_id # chapters[k].file_id)
            => \E t \in Tasks :
                  LET r == ctask[t] IN
                  /\ r.pc = "record"
                  /\ <<r.manga, r.ch>> = k
                  /\ r.fetches >= 1
                  /\ Len(r.images) >= 1 /\ r.doc = r.images
                  /\ r.size <= MaxPdfBytes
                  /\ r.uploads >= 1
                  /\ r.file_id # NULL
                  /\ chapters'[k].file_id = r.file_id]_vars
    /\ [][\A t \in Tasks :
            (ctask[t].pc # "done" /\ ctask'[t].pc = "done" /\ ctask'[t].result = "failed")
            => chapters' = chapters]_vars
    /\ [](\A t \in Tasks :
            (ctask[t].pc = "done" /\ ctask[t].msg \in EarlyFailures)
            => (ctask[t].uploads = 0 /\ ctask[t].file_id = NULL))

\* a row whose file_id was written by a request
C9_Witness ==
    \E k \in ChapterKeys :
        /\ chapters[k].exists
        /\ chapters[k].file_id \notin LegacyRefs \cup {NULL}

\* the upload or the record write failed: the pipeline holds a document and no handle
StoreFailed(r) == r.path = "pdf" /\ r.uploads >= 1 /\ r.file_id = NULL

\* C10 as the specification words it: a request whose storing failed reports success
\* with the document sent directly, and the request for the same chapter that follows
\* it asks the origin again.
C10_StoreFailureSucceeds ==
    \A t \in Tasks :
        LET r == ctask[t] IN
        /\ (r.pc = "done" /\ StoreFailed(r))
           => (r.result = "success" /\ r.sent = "direct")
        /\ (/\ r.pc = "done" /\ PastSession(r) /\ r.result # "raised"
            /\ r.path = "pdf" /\ Repeats(r) /\ r.prev.file_id = NULL)
           => r.fetches >= 1

\* C10: a request whose storing failed sends the document directly and reports
\* success whenever that send is accepted; the failing step leaves the chapters table
\* unchanged; and when the request had found no reference in the chapters table, the
\* request for the same chapter that follows it finds none either and asks the
\* origin again.
C10_StoreFailureDeliversDirectly ==
    /\ [](\A t \in Tasks :
            LET r == ctask[t] IN
            /\ (r.pc = "done" /\ StoreFailed(r))
               => /\ r.delivery # "none"
                  /\ (r.delivery = "accepted"
                         => (r.result = "success" /\ r.sent = "direct" /\ r.sentRef = NULL))
                  /\ (r.delivery = "refused" => r.result = "failed")
            /\ (/\ PastSession(r) /\ r.pc # "cache"
                /\ r.path = "pdf" /\ Repeats(r)
                /\ r.prev.file_id = NULL /\ r.prev.cached = NULL)
               => /\ r.cached = NULL
                  /\ (r.pc = "done" => r.fetches = 1))
    /\ [][\A t \in Tasks :
            (/\ ctask[t].pc \in {"upload", "record"}
             /\ ctask'[t].pc = "deliver"
             /\ ctask'[t].file_id = NULL)
            => chapters' = chapters]_vars

\* the request after a store failure, itself delivered after a full pipeline run
C10_Witness ==
    \E t \in Tasks :
        LET r == ctask[t] IN
        /\ r.pc = "done" /\ r.path = "pdf" /\ Repeats(r)
        /\ r.prev.file_id = NULL /\ r.prev.cached = NULL
        /\ r.fetches = 1 /\ r.result = "success"

\* C11: a request whose cached file_id was refused on delivery goes on to the
\* pipeline (one origin fetch), and when that run ends with a handle from the storage
\* channel the chapters row of its (manga, chapter) holds that handle and no longer
\* the refused one.
C11_RefusedHandleReplaced ==
    \A t \in Tasks :
        LET r == ctask[t] IN
        /\ r.stale
           => /\ r.path = "pdf"
              /\ r.cached # NULL
              /\ (r.pc = "fetch" \/ r.fetches = 1)
        /\ (r.stale /\ r.pc = "done" /\ r.result = "success" /\ r.file_id # NULL)
           => /\ get_chapter_file_id(chapters, r.manga, r.ch) = r.file_id
              /\ r.file_id # r.cached
              /\ r.sentRef = r.file_id

C11_Witness ==
    \E t \in Tasks :
        LET r == ctask[t] IN
        /\ r.stale /\ r.pc = "done" /\ r.result = "success"
        /\ r.cached \in LegacyRefs
        /\ r.file_id # NULL
        /\ chapters[<<r.manga, r.ch>>].file_id = r.file_id

\* C12: after upload_to_telegraph created a page for (manga, chapter), the chapters
\* row of that key holds the returned URL, and the published-link request for the
\* same chapter that follows finds that URL in the chapters table and asks neither
\* the origin nor Telegraph.
C12_PublishedLinkCached ==
    \A t \in Tasks :
        LET r == ctask[t] IN
        /\ (r.pc = "done" /\ r.path = "telegraph" /\ r.result = "success" /\ r.publishes = 1)
           => get_chapter_telegraph_url(chapters, r.manga, r.ch) = r.url
        /\ (/\ PastSession(r)
            /\ r.pc # "tgcache"
            /\ r.path = "telegraph"
            /\ Repeats(r)
            /\ r.prev.url # NULL)
           => /\ r.cached = r.prev.url
              /\ r.fetches = 0
              /\ r.publishes = 0

\* C13: a published-link request whose Telegraph page was not obtained (create_page
\* failed, or the write that follows it raised) is over with the failure report; it
\* has downloaded no page, assembled, uploaded and delivered no document, and no step
\* of a published-link request that holds no URL changes the chapters table.
C13_PublishFailureReported ==
    /\ [](\A t \in Tasks :
            LET r == ctask[t] IN
            (r.path = "telegraph" /\ r.publishes >= 1 /\ r.url = NULL)
            => /\ r.pc = "done"
               /\ r.result = "failed" /\ r.msg = "tg_failed"
               /\ r.pageGets = 0 /\ r.doc = <<>>
               /\ r.uploads = 0 /\ r.file_id = NULL
               /\ r.delivery = "none" /\ r.sent = "none")
    /\ [][\A t \in Tasks :
            (/\ ctask'[t] # ctask[t]
             /\ ctask'[t].path = "telegraph"
             /\ ctask'[t].url = NULL)
            => chapters' = chapters]_vars

C13_Witness ==
    \E t \in Tasks :
        /\ ctask[t].pc = "done"
        /\ ctask[t].path = "telegraph"
        /\ ctask[t].publishes = 1
        /\ ctask[t].url = NULL
        /\ ctask[t].msg = "tg_failed"

\* C14: a chapter request that ends without a delivery, for another reason than
\* Telegram refusing the message to the user, ends with a failure message sent to the
\* user and with no exception leaving send_chapter_or_telegraph, whichever callback
\* started it.
C14_FailuresReported ==
    \A t \in Tasks :
        LET r == ctask[t] IN
        (/\ r.pc = "done"
         /\ r.result \notin {"success", "cache_hit"}
         /\ r.delivery # "refused")
        => (r.result = "failed" /\ r.msg # "none")

(* ---------------------- Origin Client specification ------------------- *)
OriginNext ==
    \/ ApiBegin
    \/ ApiAttempt

SpecOrigin == ChapterInit /\ [][OriginNext]_vars

LastOf(s) == s[Len(s)]

\* the responses of the call that were not HTTP 429
NonRateLimited(s) == SelectSeq(s, LAMBDA x : x # "429")

\* C15: a safe_api_call never ends on an HTTP 429 response, and when it ends in
\* failure on a 403 or a request exception it has had MaxRetries responses other
\* than 429.
C15_RateLimitNeverTerminal ==
    api.pc = "done"
    => /\ LastOf(api.statuses) # "429"
       /\ (api.result = "failed" /\ LastOf(api.statuses) \in {"403", "http_error", "transport"})
          => Len(NonRateLimited(api.statuses)) = MaxRetries

\* C16: the turn of safe_api_call that gets HTTP 403 appends one record to the ban
\* log; before the last attempt it then sleeps 60 s times the number of the attempt
\* (counted from 1), makes a new session and goes on to the next attempt; on the last
\* attempt it returns failure without sleeping. A call makes at most MaxRetries
\* requests, and a call answered by 403 only sleeps 60 s, then 120 s, and fails on
\* the third 403.
C16_ForbiddenBackoff ==
    /\ [][api'.statuses = Append(api.statuses, "403")
          => /\ api'.banlog = api.banlog + 1
             /\ IF api.attempt < MaxRetries - 1
                THEN /\ api'.sleeps = Append(api.sleeps, 60 * (api.attempt + 1))
                     /\ api'.attempt = api.attempt + 1
                     /\ api'.sessions = api.sessions + 1
                     /\ api'.pc = "request"
                ELSE /\ api'.sleeps = api.sleeps
                     /\ api'.pc = "done"
                     /\ api'.result = "failed"]_vars
    /\ [](/\ Len(api.statuses) <= MaxRetries
          /\ (api.statuses = <<"403", "403", "403">>
                 => (api.pc = "done" /\ api.result = "failed"
                        /\ api.sleeps = <<60, 120>>)))

C16_Witness ==
    /\ api.pc = "done"
    /\ api.statuses = <<"403", "403", "403">>
    /\ api.sleeps = <<60, 120>>
    /\ api.banlog = 3

\* C17: the turn of safe_api_call in which the request raises a RequestException
\* (transport error, or raise_for_status on a status other than 429 and 403) sleeps
\* 2^attempt seconds, attempt counted from 0, and goes on to the next attempt; on
\* the last attempt it ends the call with the failure result, and no call ends
\* otherwise than with a response or the failure result.
C17_RequestExceptionBackoff ==
    /\ [][(\E st \in {"http_error", "transport"} : api'.statuses = Append(api.statuses, st))
          => IF api.attempt < MaxRetries - 1
             THEN /\ api'.sleeps = Append(api.sleeps, 2 ^ api.attempt)
                  /\ api'.attempt = api.attempt + 1
                  /\ api'.pc = "request"
             ELSE /\ api'.sleeps = api.sleeps
                  /\ api'.pc = "done"
                  /\ api'.result = "failed"]_vars
    /\ [](api.pc = "done" => api.result \in {"response", "failed"})

C17_Witness ==
    /\ api.pc = "done"
    /\ api.result = "failed"
    /\ api.statuses = <<"transport", "http_error", "transport">>
    /\ api.sleeps = <<1, 2>>

(* ------------------- Search Result Cache specification ---------------- *)
CacheNext ==
    \/ CacheSave
    \/ CacheGet
    \/ CacheTick

SpecCache == ChapterInit /\ [][CacheNext]_vars

\* the key/value pairs of a filter dict, whatever their order
PairSet(f) == {f[k] : k \in DOMAIN f}

\* C18: the fingerprint of a call is what create_query_hash gives for its input, and
\* two calls whose query texts are equal after trimming and lower-casing and whose
\* filter dicts hold the same key/value pairs have the same fingerprint.
C18_FingerprintCanonical ==
    cachecall.n >= 1
    => /\ cachecall.key = create_query_hash(cachecall.query, cachecall.filters)
       /\ (/\ cachecall.n >= 2
           /\ lower(strip(cachecall.query)) = lower(strip(cachecall.prev.query))
           /\ PairSet(cachecall.filters) = PairSet(cachecall.prev.filters))
          => cachecall.key = cachecall.prev.key

\* two calls that differ in case, in surrounding whitespace and in the order of the
\* filter keys
C18_Witness ==
    /\ cachecall.n >= 2
    /\ cachecall.query # cachecall.prev.query
    /\ lower(strip(cachecall.query)) = lower(strip(cachecall.prev.query))
    /\ cachecall.filters # cachecall.prev.filters
    /\ PairSet(cachecall.filters) = PairSet(cachecall.prev.filters)
    /\ cachecall.key = cachecall.prev.key

\* C19: a get_search_cache for a fingerprint whose row was written at created_at
\* returns the row's results when it is made less than 24 hours after created_at and
\* returns nothing when it is made more than 24 hours after created_at.
C19_TimeToLive ==
    cachecall.op = "get"
    => LET row == search_cache[cachecall.key] IN
       row.exists
       => /\ (cachecall.at < row.created_at + 24)
             => (cachecall.found = "present" /\ cachecall.results = row.results)
          /\ (cachecall.at > row.created_at + 24)
             => (cachecall.found = "absent" /\ cachecall.results = <<>>)

\* an entry read 23 hours after it was written
C19_Witness ==
    /\ cachecall.op = "get"
    /\ search_cache[cachecall.key].exists
    /\ cachecall.at = search_cache[cachecall.key].created_at + 23
    /\ cachecall.found = "present"

\* C20: a get_search_cache for a fingerprint that has no row, or whose row has
\* expired, returns nothing and leaves the search_cache table as it was.
C20_FailedReadChangesNothing ==
    [][(cachecall'.op = "get" /\ cachecall'.n = cachecall.n + 1)
       => LET row == search_cache[cachecall'.key] IN
          (~row.exists \/ row.expires_at <= now)
          => /\ cachecall'.found = "absent"
             /\ cachecall'.results = <<>>
             /\ search_cache' = search_cache]_vars

\* a read of a row that has expired
C20_Witness ==
    /\ cachecall.op = "get"
    /\ cachecall.found = "absent"
    /\ search_cache[cachecall.key].exists
    /\ search_cache[cachecall.key].expires_at < cachecall.at
    /\ search_cache[cachecall.key].hit_count = 0

\* a finished search for a query text that the origin answered with at least one series
OriginAnswered(r) ==
    r.pc = "done" /\ r.kind = "query" /\ r.served = "origin" /\ r.found # <<>>

\* C21: after a page-1 search for a query text went to the origin and the origin
\* returned k >= 1 series, the search cache maps the fingerprint of the search to
\* exactly those ids in origin order, and the manga table holds a row for each of
\* them whose last_synced is not older than the fetch.
C21_SearchWarmsCaches ==
    \A t \in Tasks :
        LET r == stask[t] IN
        OriginAnswered(r)
        => /\ search_cache[r.fp].exists
           /\ search_cache[r.fp].results = r.found
           /\ \A k \in DOMAIN r.found :
                 /\ manga[r.found[k]].exists
                 /\ manga[r.found[k]].last_synced >= r.fetched_at

\* the cached ids that have a row in the manga table, in cached order
Resolvable(ids) == SelectSeq(ids, LAMBDA id : manga[id].exists)

\* C22: a search answered from the search cache returns exactly the resolvable ids of
\* the cached list, in cached order, and at least one; a search that had a cache hit
\* goes on to the origin only when none of the cached ids resolves.
C22_PartialHit ==
    \A t \in Tasks :
        LET r == stask[t] IN
        /\ (r.pc = "done" /\ r.served = "cache")
           => /\ r.found = Resolvable(search_cache[r.fp].results)
              /\ r.found # <<>>
              /\ r.result = "found"
        /\ (r.pc = "gm_origin" /\ r.ids # <<>>)
           => Resolvable(r.ids) = <<>>

\* a hit answered with fewer series than the cached list holds
C22_Witness ==
    \E t \in Tasks :
        /\ stask[t].pc = "done"
        /\ stask[t].served = "cache"
        /\ stask[t].found # <<>>
        /\ Len(stask[t].found) < Len(search_cache[stask[t].fp].results)

MetaInit ==
    /\ chapters = [k \in ChapterKeys |-> NoChapter]
    /\ users = [u \in Users |-> NoUser]
    /\ now = 0
    /\ ctask = [t \in Tasks |-> IdleChapterTask]
    /\ nextRef = 1
    /\ started = 0
    /\ lastDone = NoRequest
    /\ stask = [t \in Tasks |-> IdleSearchTask]
    /\ search_cache = [fp \in Fingerprints |-> NoEntry]
    /\ manga = [id \in MangaIds |-> NoManga]
    /\ searches = 0
    /\ api = IdleApi
    /\ cachecall = IdleCacheCall
    /\ info = IdleInfo
    /\ art = EmptyArt
    /\ checksToday = [u \in Users |-> 0]

\* a query search of a regular user starts while no series-detail call is running
MetaSearchBegin ==
    /\ info.pc \in {"idle", "done"}
    /\ SqBegin(1)
    /\ stask'[1].kind = "query"
    /\ ~stask'[1].vip
    /\ searches' <= MaxMetaSearches

\* a series-detail call starts while no search is running
MetaInfoBegin == stask[1].pc \in {"idle", "done"} /\ GiBegin

\* the clock moves between the steps of a series-detail call and between searches
MetaTick == stask[1].pc \in {"idle", "done"} /\ CacheTick

\* searches and series-detail calls served one after another while the clock runs
MetaNext ==
    \/ MetaSearchBegin
    \/ QcSelect(1)
    \/ QcInsert(1)
    \/ QcReselect(1)
    \/ QcDecide(1)
    \/ SqIncrement(1)
    \/ GmCacheSelect(1)
    \/ GmCacheHit(1)
    \/ GmOrigin(1)
    \/ GmSaveSearch(1)
    \/ GmSaveManga(1)
    \/ MetaInfoBegin
    \/ GiLookup
    \/ GiOrigin
    \/ GiSave
    \/ MetaTick

SpecMeta == MetaInit /\ [][MetaNext]_vars


\* the step stores the record of series id that a search just fetched
WarmingStore(id) ==
    \E t \in Tasks :
        /\ stask[t].pc = "gm_save_manga"
        /\ stask'[t].pc = "gm_save_manga"
        /\ stask'[t].i = stask[t].i + 1
        /\ stask[t].found[stask[t].i] = id

\* the step stores the record of series id that get_manga_info just fetched
DetailStore(id) ==
    info.pc = "save" /\ info'.pc = "done" /\ info'.result = "fetched" /\ info.id = id

\* the step answers a series-detail call or a search from the caches
CacheRead ==
    \/ info.pc = "lookup" /\ info' # info
    \/ \E t \in Tasks : stask[t].pc \in {"gm_select", "gm_hit"} /\ stask'[t] # stask[t]

\* C23: the row of a series changes only in a step that stores metadata just fetched
\* from the origin (search warming or series detail); every such step leaves the row
\* with last_synced equal to the time of the store; a step that reads the caches
\* leaves the manga table as it was.
C23_LastSyncedOnStoreOnly ==
    [][/\ \A id \in MangaIds :
             /\ manga'[id] # manga[id] => (WarmingStore(id) \/ DetailStore(id))
             /\ (WarmingStore(id) \/ DetailStore(id))
                => (manga'[id].exists /\ manga'[id].last_synced = now)
       /\ CacheRead => manga' = manga]_vars

\* a series stored a second time, a day after the row was written
C23_Witness ==
    /\ info.pc = "done"
    /\ info.result = "fetched"
    /\ info.use_cache
    /\ now >= MaxAgeHours
    /\ manga[info.id].last_synced = now
    /\ \E t \in Tasks : /\ stask[t].served = "origin"
                        /\ stask[t].result = "found"
                        /\ stask[t].fetched_at = 0
                        /\ \E k \in DOMAIN stask[t].found : stask[t].found[k] = info.id

\* C24: get_manga_info with use_cache answers from the manga table, with no origin
\* request, exactly when the row exists and now - last_synced < 24 hours; otherwise
\* it requests the origin, and when the origin returns the series its record is in
\* the manga table with last_synced = now when the call returns.
C24_FreshOrFetched ==
    [][/\ (info.pc = "lookup" /\ info.use_cache /\ info' # info)
          => /\ (info'.pc = "done" /\ info'.result = "cached" /\ info'.requests = 0)
                <=> (manga[info.id].exists /\ now - manga[info.id].last_synced < 24)
             /\ (info'.pc = "origin")
                <=> ~(manga[info.id].exists /\ now - manga[info.id].last_synced < 24)
       /\ (info.pc = "lookup" /\ info' # info) => manga' = manga
       /\ (info.pc = "save" /\ info.use_cache /\ info'.pc = "done")
          => /\ info.requests = 1
             /\ manga'[info.id].exists
             /\ manga'[info.id].last_synced = now]_vars

\* task t takes a step of the quota check
QuotaCheckStep(t) ==
    stask[t].pc \in {"qc_select", "qc_insert", "qc_reselect", "qc_decide"} /\ stask'[t] # stask[t]

\* task t takes the step that records a usage
RecordUsageStep(t) == stask[t].pc = "increment" /\ stask'[t] # stask[t]

\* the step is the day-rollover reset of user u
RolloverReset(u) ==
    /\ users[u].last_request_date # today
    /\ users'[u].last_request_date = today
    /\ users'[u].daily_requests = 0

\* the quota check never changes the monthly counter and changes the daily counter
\* only by the rollover reset; the counters grow only in the usage step, by one each;
\* the monthly counter never decreases
CountersFrame ==
    /\ \A t \in Tasks :
          LET u == stask[t].user IN
          /\ QuotaCheckStep(t)
             => /\ users'[u].monthly_requests = users[u].monthly_requests
                /\ \/ users'[u].daily_requests = users[u].daily_requests
                   \/ RolloverReset(u)
          /\ RecordUsageStep(t)
             => /\ users'[u].monthly_requests = users[u].monthly_requests + 1
                /\ users'[u].daily_requests = users[u].daily_requests + 1
    /\ \A u \in Users :
          /\ users'[u].monthly_requests >= users[u].monthly_requests
          /\ (\/ users'[u].monthly_requests > users[u].monthly_requests
              \/ users'[u].daily_requests > users[u].daily_requests)
             => \E t \in Tasks : RecordUsageStep(t) /\ stask[t].user = u

\* the step ends a request of task t with the verdict Denied
DeniedStep(t) == stask[t].pc = "qc_decide" /\ stask'[t].result = "denied"

\* C26 as stated: the frame of the counters, and a Denied request leaves both
\* counters as they were.
C26_DeniedLeavesCounters ==
    [][/\ CountersFrame
       /\ \A t \in Tasks :
             DeniedStep(t)
             => /\ users'[stask[t].user].daily_requests = users[stask[t].user].daily_requests
                /\ users'[stask[t].user].monthly_requests
                      = users[stask[t].user].monthly_requests]_vars

\* C26: the quota check never changes the monthly counter and changes the daily
\* counter only by the day-rollover reset; the counters grow only when a usage is
\* recorded, by one each; the monthly counter never decreases; a Denied request
\* leaves the monthly counter as it was and the daily counter as it was unless the
\* request is the first of a new day, which resets it to zero.
C26_CountersFrame ==
    [][/\ CountersFrame
       /\ \A t \in Tasks :
             DeniedStep(t)
             => /\ \/ users'[stask[t].user].daily_requests
                         = users[stask[t].user].daily_requests
                   \/ RolloverReset(stask[t].user)
                /\ users'[stask[t].user].monthly_requests
                      = users[stask[t].user].monthly_requests]_vars

\* the first request of a day, denied on the monthly limit after the daily counter
\* was reset
C26_Witness ==
    \E t \in Tasks :
        /\ stask[t].pc = "done"
        /\ stask[t].result = "denied"
        /\ stask[t].nth = 1
        /\ today = 0
        /\ users[stask[t].user].daily_requests = 0
        /\ users[stask[t].user].monthly_requests >= monthly_limit(FALSE)

\* a user seen before today, with usage on record
RaceUserRows ==
    {NoUser, [exists |-> TRUE, daily_requests |-> 2, monthly_requests |-> 2,
              last_request_date |-> -1]}

RaceInit ==
    /\ chapters = [k \in ChapterKeys |-> NoChapter]
    /\ users \in [Users -> RaceUserRows]
    /\ now = 0
    /\ ctask = [t \in Tasks |-> IdleChapterTask]
    /\ nextRef = 1
    /\ started = 0
    /\ lastDone = NoRequest
    /\ stask = [t \in Tasks |-> IdleSearchTask]
    /\ search_cache = [fp \in Fingerprints |-> NoEntry]
    /\ manga = [id \in MangaIds |-> NoManga]
    /\ searches = 0
    /\ api = IdleApi
    /\ cachecall = IdleCacheCall
    /\ info = IdleInfo
    /\ art = EmptyArt
    /\ checksToday = [u \in Users |-> 0]

\* task t starts a query search of a regular user
RaceBegin(t) ==
    /\ SqBegin(t)
    /\ stask'[t].kind = "query"
    /\ ~stask'[t].vip

RaceStep(t) ==
    \/ RaceBegin(t)
    \/ QcSelect(t)
    \/ QcInsert(t)
    \/ QcReselect(t)
    \/ QcDecide(t)
    \/ SqIncrement(t)
    \/ GmCacheSelect(t)
    \/ GmCacheHit(t)
    \/ GmOrigin(t)
    \/ GmSaveSearch(t)
    \/ GmSaveManga(t)

\* two handler runs of the same user interleave at every await
RaceNext == \E t \in Tasks : RaceStep(t)

SpecRace == RaceInit /\ [][RaceNext]_vars

\* C25: every quota check that a search request starts returns a verdict; none ends
\* in an exception, whatever the user's row and whatever the other handler run of
\* the same user is doing.
C25_QuotaCheckNeverRaises ==
    \A t \in Tasks :
        (stask[t].pc = "done" /\ stask[t].result # "rejected")
        => (stask[t].verdict # "none" /\ stask[t].result # "raised")

\* C28: under any interleaving of the checks and usage records of one user, the
\* daily counter is taken down only by the first check of a calendar day: no step
\* lowers it once the row carries today's date, so no usage recorded today is lost.
C28_NoResetAfterUsage ==
    [][\A u \in Users :
          (users[u].exists /\ users'[u].daily_requests < users[u].daily_requests)
          => users[u].last_request_date # today]_vars

\* task t takes the step that counts its successful read of the row of fp
HitStep(t, fp) == stask[t].pc = "gm_hit" /\ stask[t].fp = fp /\ stask'[t] # stask[t]

\* task t takes the step that puts the row of fp
PutStep(t, fp) == stask[t].pc = "gm_save" /\ stask[t].fp = fp /\ stask'[t] # stask[t]

\* C30: every successful read of a search-cache row adds exactly one to the row's hit
\* counter, whatever other reads are in progress, and nothing but a read or a put
\* (which starts the counter at zero) changes the counter: n successful reads with
\* no put in between leave the counter at n.
C30_HitCounterAtomic ==
    [][\A fp \in Fingerprints :
          /\ (\E t \in Tasks : HitStep(t, fp))
             => search_cache'[fp].hit_count = search_cache[fp].hit_count + 1
          /\ search_cache'[fp].hit_count # search_cache[fp].hit_count
             => \/ \E t \in Tasks : HitStep(t, fp)
                \/ \E t \in Tasks : PutStep(t, fp) /\ search_cache'[fp].hit_count = 0]_vars

\* two reads of the same row that both ran their SELECT before either counted its
\* hit, and the counter at two
C30_Witness ==
    /\ \A t \in Tasks : /\ stask[t].pc = "done"
                        /\ stask[t].served = "cache"
                        /\ stask[t].hits = 0
                        /\ stask[t].fp = stask[1].fp
    /\ search_cache[stask[1].fp].hit_count = 2

ArtNext == ArtSave \/ ArtUpdate

SpecArtifact == ChapterInit /\ [][ArtNext]_vars

\* C27: the chapters table never holds two references for one (series, chapter,
\* format), and after a put on a key that had a reference the table holds the
\* reference of that put and no other.
C27_OneReferencePerKey ==
    /\ \A key \in ChapterKeys, format \in Formats :
          Cardinality(RefsOf(art.rows, key, format)) <= 1
    /\ \A key \in ChapterKeys : Cardinality(RowsOf(art.rows, key)) <= 1
    /\ art.last.had
       => RefsOf(art.rows, art.last.key, art.last.format) = {art.last.ref}

\* a put on a key that had another reference, made by INSERT OR REPLACE
C27_Witness ==
    /\ art.last.had
    /\ art.n >= 2
    /\ art.nextid >= 3
    /\ \E r \in art.rows : /\ <<r.manga_id, r.chapter_number>> = art.last.key
                           /\ r.id = art.nextid - 1
                           /\ r[art.last.format] = 2

\* task t starts a document request of a regular user for chapter 1 of series 1
DocBegin(t) ==
    /\ ChBegin(t)
    /\ ctask'[t].pc = "cache"
    /\ ctask'[t].manga = 1
    /\ ~ctask'[t].vip

\* the origin lists at most one page for the chapter
DocFetchPageList(t) ==
    /\ PlFetchPageList(t)
    /\ ctask'[t].npages <= 1

DocStep(t) ==
    \/ DocBegin(t)
    \/ ChCheckCache(t)
    \/ ChSendCached(t)
    \/ DocFetchPageList(t)
    \/ PlDownloadPage(t)
    \/ PlAssemble(t)
    \/ PlUpload(t)
    \/ PlRecord(t)
    \/ PlDeliver(t)

\* two document requests interleave at every await; the migration ran before them
DocRaceNext ==
    \/ \E t \in Tasks : DocStep(t)
    \/ MigrateCacheEntry

SpecDocRace == ChapterInit /\ [][DocRaceNext]_vars

\* tasks t and o both found no handle for the same chapter
BothMissed(t, o) ==
    /\ t # o
    /\ ctask[o].manga = ctask[t].manga
    /\ ctask[o].ch = ctask[t].ch
    /\ ctask[t].path = "pdf" /\ ctask[o].path = "pdf"
    /\ ctask[t].cached = NULL /\ ctask[o].cached = NULL
    /\ ctask[o].pc \in {"fetch", "pages", "upload", "record", "deliver", "done"}
    /\ ctask[o].fetches >= 1

\* task t takes the step that writes its handle to the chapters table
WriteStep(t) ==
    ctask[t].pc = "record" /\ ctask'[t].pc = "deliver" /\ ctask'[t].file_id # NULL

\* C29: when two document requests for the same chapter both missed the cache, each
\* write of a handle leaves the chapters table holding that handle for the chapter,
\* so that after both writes the table holds the handle written last.
C29_ConcurrentMissesLastWriteWins ==
    [][\A t, o \in Tasks :
          (BothMissed(t, o) /\ WriteStep(t))
          => get_chapter_file_id(chapters', ctask[t].manga, ctask[t].ch)
                = ctask[t].file_id]_vars

\* the step is a turn of safe_api_call that got HTTP 403 before the last attempt
ForbiddenRetry ==
    /\ api.pc = "request"
    /\ api.attempt < MaxRetries - 1
    /\ api'.statuses = Append(api.statuses, "403")

\* C35: the User-Agent that _session carries changes only in a step that replaces
\* the session with a newly constructed one, and the session is replaced exactly in
\* the turns where a 403 leads to a retry.
C35_IdentityByReplacement ==
    [][/\ api'.ua # api.ua => api'.sessions = api.sessions + 1
       /\ api'.sessions # api.sessions <=> ForbiddenRetry
       /\ ForbiddenRetry => api'.sessions = api.sessions + 1]_vars

\* the loop of safe_api_call runs on: every sleep ends and every request returns
SpecOriginFair == SpecOrigin /\ WF_vars(ApiAttempt)

\* C38: a safe_api_call makes at most MaxRetries requests, whatever the responses,
\* and every call that was started ends, with a response or with the failure result.
C38_BoundedRequests ==
    /\ [](/\ Len(api.statuses) <= MaxRetries
          /\ api.attempt <= Len(api.statuses)
          /\ api.pc = "done" => api.result \in {"response", "failed"})
    /\ (api.pc = "request") ~> (api.pc = "done")

\* a call that used all its requests on a mix of 429, 403 and a request exception
C38_Witness ==
    /\ api.pc = "done"
    /\ api.result = "failed"
    /\ Len(api.statuses) = MaxRetries
    /\ {api.statuses[k] : k \in DOMAIN api.statuses} = {"429", "403", "transport"}

\* a chapter of up to MaxProgressPages pages is requested as a document
ProgFetchPageList(t) == fetch_page_list(t, MaxProgressPages)

ProgBegin(t) ==
    /\ ChBegin(t)
    /\ ctask'[t].pc = "cache"
    /\ ctask'[t].manga = 1 /\ ctask'[t].ch = 1 /\ ctask'[t].user = 1 /\ ~ctask'[t].vip

ProgStep(t) ==
    \/ ProgBegin(t)
    \/ ChCheckCache(t)
    \/ ChSendCached(t)
    \/ ProgFetchPageList(t)
    \/ PlDownloadPage(t)
    \/ PlAssemble(t)
    \/ PlUpload(t)
    \/ PlRecord(t)
    \/ PlDeliver(t)

\* requests served one after another
ProgNext ==
    \/ ProgStep(1)
    \/ MigrateCacheEntry

SpecProgress == ChapterInit /\ [][ProgNext]_vars

\* the page loop of task t has gone past position i
PagesPast(t, i) == ctask[t].fetches >= 1 /\ ctask[t].npages >= i /\ ctask[t].i > i

\* C34: while the N pages of a chapter are downloaded, a progress notification has
\* been emitted after every position i passed so far with i mod 5 = 0 or i = N,
\* whether or not page i was downloaded
C34_ProgressEveryFifthAndLast ==
    \A t \in Tasks : \A i \in 1..MaxProgressPages :
        (PagesPast(t, i) /\ notifies(i, ctask[t].npages)) => i \in ctask[t].progress

\* the calls searches without filters make
SweepSave == CacheSave /\ cachecall'.filters = <<>>

SweepGet == CacheGet /\ cachecall'.filters = <<>>

\* the cache calls of the bot and its periodic sweep, in any order
SweepNext ==
    \/ SweepSave
    \/ SweepGet
    \/ CacheTick
    \/ CacheSweep

SpecSweep == ChapterInit /\ [][SweepNext]_vars

\* the periodic sweep runs
SweepStep == cachecall'.op = "sweep" /\ cachecall' # cachecall /\ now' = now

OriginEmptyStep(t) ==
    stask[t].pc = "gm_origin" /\ stask'[t] # stask[t] /\ stask'[t].found = <<>>

\* C32: a search-cache row comes into being only in the put of a search whose origin
\* call brought at least one series, and holds those ids; when the origin call fails
\* or its answer holds no series, the search returns the empty result without raising
\* and leaves the search cache and the manga table as they were.
C32_EmptyOriginCachesNothing ==
    [][/\ \A t \in Tasks :
            OriginEmptyStep(t) =>
                /\ stask'[t].pc = "done"
                /\ stask'[t].result = "not_found"
                /\ stask'[t].served \in {"failed", "origin"}
                /\ UNCHANGED <<search_cache, manga>>
       /\ \A fp \in Fingerprints :
            (~search_cache[fp].exists /\ search_cache'[fp].exists) =>
                \E t \in Tasks :
                    /\ PutStep(t, fp)
                    /\ stask[t].found # <<>>
                    /\ search_cache'[fp].results = stask[t].found]_vars

C32_Witness ==
    \E t \in Tasks :
        /\ stask[t].pc = "done"
        /\ stask[t].served = "failed"
        /\ stask[t].result = "not_found"
        /\ ~search_cache[stask[t].fp].exists
        /\ \E fp \in Fingerprints : search_cache[fp].exists

\* the series-detail call returns without a record fetched from the origin
FetchFailedStep ==
    /\ info.pc \in {"origin", "save"}
    /\ info'.pc = "done"
    /\ info'.result # "fetched"

\* C39: when get_manga_info has gone to the origin, because the stored record is
\* missing or stale, and the fetch fails, it returns the empty result, never the
\* stored record, and the manga table, last_synced included, is as it was.
C39_FailedFetchReturnsEmpty ==
    [][FetchFailedStep => /\ info'.result = "empty"
                          /\ info'.requests = 1
                          /\ manga' = manga]_vars

C39_Witness ==
    /\ info.pc = "done"
    /\ info.result = "empty"
    /\ info.reply = "none"
    /\ info.requests = 1
    /\ manga[info.id].exists
    /\ ~is_manga_cached(manga, info.id, now, MaxAgeHours)

\* the counters of user u change in one of the two ways the code has
CountersMove(u) ==
    \/ /\ users'[u].daily_requests = users[u].daily_requests + 1
       /\ users'[u].monthly_requests = users[u].monthly_requests + 1
    \/ /\ users'[u].daily_requests = 0
       /\ users'[u].monthly_requests = users[u].monthly_requests
       /\ users[u].last_request_date # today

\* C40: in every reachable state 0 <= daily counter <= monthly counter for every
\* user row: a row is created with both at 0, recording a usage adds one to both,
\* and the only other change is the day-rollover reset of the daily counter to 0.
C40_DailyWithinMonthly ==
    /\ [](\A u \in Users :
            users[u].exists => /\ 0 <= users[u].daily_requests
                               /\ users[u].daily_requests <= users[u].monthly_requests)
    /\ [][\A u \in Users :
            /\ (~users[u].exists /\ users'[u].exists)
                 => users'[u].daily_requests = 0 /\ users'[u].monthly_requests = 0
            /\ (/\ users[u].exists
                /\ <<users'[u].daily_requests, users'[u].monthly_requests>>
                       # <<users[u].daily_requests, users[u].monthly_requests>>)
                 => CountersMove(u)]_vars

\* a user whose day rolled over and whose first search of the new day was recorded
C40_Witness ==
    \E u \in Users :
        /\ users[u].exists
        /\ users[u].last_request_date = today
        /\ users[u].daily_requests = 1
        /\ users[u].monthly_requests = 300

\* the format a put does not write
OtherFormat(format) == IF format = "file_id" THEN "telegraph_url" ELSE "file_id"

\* C37: a put of the reference for one format of a (series, chapter) leaves the
\* reference the table holds for the other format of that key as it was, whichever
\* operation makes the put, the migration's included.
C37_OtherFormatUntouched ==
    [][art'.n = art.n + 1
       => RefsOf(art'.rows, art'.last.key, OtherFormat(art'.last.format))
             = RefsOf(art.rows, art'.last.key, OtherFormat(art'.last.format))]_vars

\* a regular user one request short of the daily limit, and a user not seen before
GateUserRows ==
    {NoUser, [exists |-> TRUE, daily_requests |-> daily_limit(FALSE) - 1,
              monthly_requests |-> daily_limit(FALSE) - 1, last_request_date |-> 0]}

GateInit ==
    /\ chapters = [k \in ChapterKeys |-> NoChapter]
    /\ users \in [Users -> GateUserRows]
    /\ now = 0
    /\ ctask = [t \in Tasks |-> IdleChapterTask]
    /\ nextRef = 1
    /\ started = 0
    /\ lastDone = NoRequest
    /\ stask = [t \in Tasks |-> IdleSearchTask]
    /\ search_cache = [fp \in Fingerprints |-> NoEntry]
    /\ manga = [id \in MangaIds |-> NoManga]
    /\ searches = 0
    /\ api = IdleApi
    /\ cachecall = IdleCacheCall
    /\ info = IdleInfo
    /\ art = EmptyArt
    /\ checksToday = [u \in Users |-> 0]

\* two handler runs of the same user interleave at every await, all on one day
SpecGate == GateInit /\ [][RaceNext]_vars

\* the requests of user u that passed the quota gate today: those on record, and
\* those that passed and have not recorded their usage yet
PassedToday(u) ==
    users[u].daily_requests
        + Cardinality({t \in Tasks : stask[t].pc = "increment" /\ stask[t].user = u})

\* C36: under any interleaving of concurrent requests of one user, the number of
\* requests that pass the quota gate on one calendar day never exceeds the daily
\* limit.
C36_GateWithinDailyLimit ==
    \A u \in Users : users[u].exists => PassedToday(u) <= daily_limit(FALSE)

\* puts and reads of the search cache while the clock runs
RowNext ==
    \/ RowSave
    \/ RowGet
    \/ CacheTick

SpecSearchRows == ChapterInit /\ [][RowNext]_vars

\* the step is a put on the search cache
RowPutStep == art'.search_nextid = art.search_nextid + 1

\* C31: the search cache holds at most one row per fingerprint; a put for a
\* fingerprint, stored before or not, leaves one row for it that holds the ids of
\* the put, expires_at = now + the time to live, which is after its creation time,
\* and a hit counter of 0.
C31_OneRowPerFingerprint ==
    /\ [](\A fp \in RowFingerprints :
            Cardinality(SearchRowsOf(art.search_rows, fp)) <= 1)
    /\ [][RowPutStep =>
            \E r \in art'.search_rows :
                /\ SearchRowsOf(art'.search_rows, art'.search_last.fp) = {r}
                /\ r.results = art'.search_last.ids
                /\ r.created_at = now
                /\ r.expires_at = now + CacheHours
                /\ r.expires_at > r.created_at
                /\ r.hit_count = 0]_vars

\* a put on a fingerprint whose row had been read: other ids, counter back at 0
C31_Witness ==
    /\ art.search_last.had
    /\ art.search_last.hits >= 1
    /\ art.search_last.at > 0
    /\ \E r \in art.search_rows :
          /\ r.query_hash = art.search_last.fp
          /\ r.results = art.search_last.ids
          /\ r.hit_count = 0
          /\ r.id >= 2

====
